---- MODULE Spec2Model ----
(***************************************************************************)
(* A model of normcore-rs, the admissibility evaluator: citation           *)
(* extraction and linking, knowledge-state building, statement extraction, *)
(* modality detection, ground matching, license derivation, axiom checking *)
(* and aggregation into a judgment.                                        *)
(*                                                                         *)
(* Representation.  A Rust String that the code scans (texts, citation     *)
(* keys, tool names, ids) is a sequence of one-character strings.  A       *)
(* string the code only compares (roles, strengths, enum variants) is a    *)
(* TLA+ string.  Option<T> is a sequence of length 0 (None) or 1 (Some).   *)
(* Explanation texts are carried as their literal template.                *)
(***************************************************************************)
EXTENDS Integers, Sequences, FiniteSets, TLC

VARIABLES
    statement,          \* AxiomChecker::check: the statement under check
    license,            \* AxiomChecker::check: the license passed in
    ground_set,         \* check / derive: the GroundSet (its nodes)
    check_result,       \* Option<AxiomCheckResult> returned by check
    links,              \* Option<LinkSet>: derive's argument, evaluate_message's links
    derived,            \* Option<License> returned by derive
    axiom_results,      \* aggregate: the per-statement AxiomCheckResults
    validation_result,  \* Option<ValidationResult>: aggregate's, evaluate_message's
    ev_input,              \* evaluate: the EvaluateInput
    pc,                 \* evaluate: the step the call is at
    outcome,            \* evaluate: Option<Result<AdmissibilityJudgment, EvaluateError>>
    em_agent_message,      \* evaluate: Option of the message under evaluation
    em_trajectory,         \* evaluate: the conversation handed to evaluate_message
    em_tool_results,       \* evaluate_message: Vec<ToolResultSpeechAct>
    em_knowledge_nodes,    \* evaluate_message: Vec<KnowledgeNode>
    em_tool_call_refs,     \* evaluate_message: BTreeMap call id -> ground ids
    em_text,               \* evaluate_message: the text of the speech act
    em_combined_grounds,   \* evaluate_message: explicit then tool-call grounds
    call_args,          \* a function called on its own: its arguments
    call_result,        \* Option of the value that call returned
    frame               \* Option of the locals of a loop run pass by pass

UnitVars ==
    <<statement, license, ground_set, check_result, derived, axiom_results>>

PipelineVars ==
    <<ev_input, pc, outcome, em_agent_message, em_trajectory, em_tool_results,
      em_knowledge_nodes, em_tool_call_refs, em_text, em_combined_grounds>>

CallVars == <<call_args, call_result, frame>>

vars == <<UnitVars, links, validation_result, PipelineVars, CallVars>>

(***************************************************************************)
(* Bounds of the model.                                                    *)
(***************************************************************************)
MaxNodes == 2
MaxLinks == 2
MaxResults == 3
MaxExchanges == 1
MaxGrounds == 1

(***************************************************************************)
(* Generic helpers.                                                        *)
(***************************************************************************)
None == <<>>
Some(v) == <<v>>
IsSome(o) == Len(o) = 1
IsNone(o) == Len(o) = 0
Unwrap(o) == o[1]

Min(S) == CHOOSE x \in S : \A y \in S : x <= y

\* All sequences over S of length at most n.
SeqUpTo(S, n) == UNION {[1..k -> S] : k \in 0..n}

\* Iterator::any / Iterator::all over a Vec.
iter_any(s, P(_)) == \E i \in 1..Len(s) : P(s[i])
iter_all(s, P(_)) == \A i \in 1..Len(s) : P(s[i])

(***************************************************************************)
(* Strings: what the code uses of str and String, on ASCII text and on the *)
(* letter U+0130, whose lower case is one byte longer.                     *)
(***************************************************************************)
\* The printable ASCII characters, in code order from 32 (space) to 126,
\* without the grave accent (96), which no text of the model contains.
Ascii ==
    <<" ", "!", "\"", "#", "$", "%", "&", "'", "(", ")", "*", "+",
      ",", "-", ".", "/", "0", "1", "2", "3", "4", "5", "6", "7",
      "8", "9", ":", ";", "<", "=", ">", "?", "@", "A", "B", "C",
      "D", "E", "F", "G", "H", "I", "J", "K", "L", "M", "N", "O",
      "P", "Q", "R", "S", "T", "U", "V", "W", "X", "Y", "Z", "[",
      "\\", "]", "^", "_", "a", "b", "c", "d", "e", "f", "g", "h",
      "i", "j", "k", "l", "m", "n", "o", "p", "q", "r", "s", "t",
      "u", "v", "w", "x", "y", "z", "{", "|", "}", "~">>

UpperLetters == <<"A", "B", "C", "D", "E", "F", "G", "H", "I", "J", "K", "L", "M", "N", "O", "P", "Q", "R", "S", "T", "U", "V", "W", "X", "Y", "Z">>
LowerLetters == <<"a", "b", "c", "d", "e", "f", "g", "h", "i", "j", "k", "l", "m", "n", "o", "p", "q", "r", "s", "t", "u", "v", "w", "x", "y", "z">>
Digits == {"0", "1", "2", "3", "4", "5", "6", "7", "8", "9"}
Letters ==
    {UpperLetters[i] : i \in 1..26} \cup {LowerLetters[i] : i \in 1..26}

\* The UTF-8 bytes of U+0130 (capital I with dot above, C4 B0) and of U+0307
\* (combining dot above, CC 87), each byte under a name of its own.
DottedCapitalI == <<"xC4", "xB0">>
CombiningDot == <<"xCC", "x87">>

\* The byte of a character.
ByteOf ==
    [c \in {Ascii[i] : i \in 1..Len(Ascii)} \cup {"\n", "\t", "\r", "\f"}
            \cup {"xC4", "xB0", "xCC", "x87"} |->
        IF c = "xC4" THEN 196
        ELSE IF c = "xB0" THEN 176
        ELSE IF c = "xCC" THEN 204
        ELSE IF c = "x87" THEN 135
        ELSE IF c = "\n" THEN 10
        ELSE IF c = "\t" THEN 9
        ELSE IF c = "\r" THEN 13
        ELSE IF c = "\f" THEN 12
        ELSE LET i == CHOOSE k \in 1..Len(Ascii) : Ascii[k] = c
             IN  IF i <= 64 THEN 31 + i ELSE 32 + i]

LowerOf ==
    [c \in DOMAIN ByteOf |->
        IF \E i \in 1..26 : UpperLetters[i] = c
        THEN LowerLetters[CHOOSE i \in 1..26 : UpperLetters[i] = c]
        ELSE c]

RECURSIVE Flatten(_)
Flatten(ss) == IF ss = <<>> THEN <<>> ELSE Head(ss) \o Flatten(Tail(ss))

\* str::to_lowercase: an ASCII capital becomes its small letter; U+0130
\* becomes "i" followed by U+0307, three bytes for two; every other
\* character of the model is its own lower case.
to_lowercase(s) ==
    LET lower_at(i) ==
            IF s[i] = "xC4" /\ i < Len(s) /\ s[i + 1] = "xB0"
            THEN <<"i">> \o CombiningDot
            ELSE IF s[i] = "xB0" /\ i > 1 /\ s[i - 1] = "xC4" THEN <<>>
            ELSE <<LowerOf[s[i]]>>
    IN  IF \A i \in 1..Len(s) : s[i] # "xC4"
        THEN [i \in 1..Len(s) |-> LowerOf[s[i]]]
        ELSE Flatten([i \in 1..Len(s) |-> lower_at(i)])

\* str::is_char_boundary: offset 0, the length, or the offset of a byte that
\* does not continue a character (a continuation byte is 0x80..0xBF).
is_char_boundary(s, index) ==
    \/ index = 0
    \/ index = Len(s)
    \/ index < Len(s) /\ ~(ByteOf[s[index + 1]] \in 128..191)

is_whitespace(c) == c \in {" ", "\n", "\t", "\r", "\f"}
is_ascii_alphabetic(c) == c \in Letters
is_ascii_alphanumeric(c) == c \in Letters \cup Digits

Max(S) == CHOOSE x \in S : \A y \in S : x >= y

\* s[a..b] with 0-based byte offsets, as Rust slices: a inclusive, b exclusive.
Slice(s, a, b) == SubSeq(s, a + 1, b)

\* Whether needle occurs in s at 0-based offset i.
MatchAt(s, needle, i) ==
    /\ i + Len(needle) <= Len(s)
    /\ \A j \in 1..Len(needle) : s[i + j] = needle[j]

contains(s, needle) == \E i \in 0..(Len(s) - Len(needle)) : MatchAt(s, needle, i)

starts_with(s, prefix) == MatchAt(s, prefix, 0)

ends_with(s, suffix) ==
    Len(suffix) <= Len(s) /\ MatchAt(s, suffix, Len(s) - Len(suffix))

\* str::find / str::rfind: Option of the 0-based offset.
find(s, needle) ==
    LET first(hits) == IF hits = {} THEN None ELSE Some(Min(hits))
    IN  first({i \in 0..(Len(s) - Len(needle)) : MatchAt(s, needle, i)})

rfind(s, needle) ==
    LET last(hits) == IF hits = {} THEN None ELSE Some(Max(hits))
    IN  last({i \in 0..(Len(s) - Len(needle)) : MatchAt(s, needle, i)})

\* str::trim_start_matches / trim_end_matches with a character predicate.
trim_start_matches(s, P(_)) ==
    LET from(keep) == IF keep = {} THEN <<>> ELSE SubSeq(s, Min(keep), Len(s))
    IN  from({i \in 1..Len(s) : ~P(s[i])})

trim_end_matches(s, P(_)) ==
    LET upto(keep) == IF keep = {} THEN <<>> ELSE SubSeq(s, 1, Max(keep))
    IN  upto({i \in 1..Len(s) : ~P(s[i])})

trim_start(s) == trim_start_matches(s, is_whitespace)
trim_end(s) == trim_end_matches(s, is_whitespace)
trim(s) == trim_end(trim_start(s))

\* Vec<String>::join(sep).
RECURSIVE join(_, _)
join(parts, sep) ==
    IF parts = <<>> THEN <<>>
    ELSE IF Len(parts) = 1 THEN parts[1]
    ELSE parts[1] \o sep \o join(Tail(parts), sep)

\* contains_any of extractor.rs and modality_detector.rs.
contains_any(s, needles) ==
    \E k \in 1..Len(needles) : contains(s, needles[k])

\* Byte-wise lexicographic order of String, the order of BTreeMap keys.
RECURSIVE StrLess(_, _)
StrLess(a, b) ==
    IF b = <<>> THEN FALSE
    ELSE IF a = <<>> THEN TRUE
    ELSE IF ByteOf[a[1]] # ByteOf[b[1]] THEN ByteOf[a[1]] < ByteOf[b[1]]
    ELSE StrLess(Tail(a), Tail(b))

(***************************************************************************)
(* json.rs: JsonValue and parse_json                                       *)
(***************************************************************************)
\* BTreeMap<String, V> is a sequence of <<key, value>> in key order.
btree_get(map, key) ==
    LET first(hits) ==
            IF hits = {} THEN None ELSE Some(map[CHOOSE e \in hits : TRUE][2])
    IN  first({e \in 1..Len(map) : map[e][1] = key})

btree_insert(map, key, value) ==
    LET place(others) ==
            SelectSeq(others, LAMBDA e : StrLess(e[1], key))
            \o << <<key, value>> >>
            \o SelectSeq(others, LAMBDA e : StrLess(key, e[1]))
    IN  place(SelectSeq(map, LAMBDA e : e[1] # key))

JsonNull == [kind |-> "Null"]
JsonBool(b) == [kind |-> "Bool", bool |-> b]
JsonNumber(literal) == [kind |-> "Number", literal |-> literal]
JsonString(s) == [kind |-> "String", str |-> s]
JsonArray(items) == [kind |-> "Array", items |-> items]
JsonObject(map) == [kind |-> "Object", map |-> map]

as_str(v) == IF v.kind = "String" THEN Some(v.str) ELSE None

\* Parser results: Ok carries the value and the offset after it.
POk(value, i) == [ok |-> TRUE, value |-> value, i |-> i]
PErr(message) == [ok |-> FALSE, message |-> message]

peek(bytes, i) == IF i < Len(bytes) THEN Some(bytes[i + 1]) ELSE None

skip_ws(bytes, i) ==
    LET stops == {j \in i..Len(bytes) :
                    j = Len(bytes) \/ bytes[j + 1] \notin {" ", "\n", "\r", "\t"}}
    IN  Min(stops)

consume_digits(bytes, i) ==
    LET stops == {j \in i..Len(bytes) :
                    j = Len(bytes) \/ bytes[j + 1] \notin Digits}
    IN  Min(stops)

\* try_consume: the offset after an optional byte out of a set.
try_consume(bytes, i, set) ==
    IF peek(bytes, i) \in {Some(b) : b \in set} THEN i + 1 ELSE i

\* The loop of parse_string from offset i with the characters pushed so far.
\* The escapes \b and \u produce characters outside the model's alphabet and
\* are reported as "invalid escape" like any unknown escape.
RECURSIVE parse_string_loop(_, _, _)
parse_string_loop(bytes, i, out) ==
    LET escape(esc) ==
            IF esc \in {"\"", "\\", "/"}
            THEN parse_string_loop(bytes, i + 2, Append(out, esc))
            ELSE IF esc = "n"
            THEN parse_string_loop(bytes, i + 2, Append(out, "\n"))
            ELSE IF esc = "r"
            THEN parse_string_loop(bytes, i + 2, Append(out, "\r"))
            ELSE IF esc = "f"
            THEN parse_string_loop(bytes, i + 2, Append(out, "\f"))
            ELSE IF esc = "t"
            THEN parse_string_loop(bytes, i + 2, Append(out, "\t"))
            ELSE PErr("invalid escape")
        byte(b) ==
            IF b = "\"" THEN POk(out, i + 1)
            ELSE IF b = "\\"
            THEN IF i + 1 >= Len(bytes) THEN PErr("incomplete escape")
                 ELSE escape(bytes[i + 2])
            ELSE IF b \in {"\n", "\r", "\t", "\f"}
            THEN PErr("control character in string")
            ELSE parse_string_loop(bytes, i + 1, Append(out, b))
    IN  IF i >= Len(bytes) THEN PErr("unterminated string")
        ELSE byte(bytes[i + 1])

parse_string(bytes, i) ==
    IF peek(bytes, i) = Some("\"") THEN parse_string_loop(bytes, i + 1, <<>>)
    ELSE PErr("unexpected token")

\* parse_number: the scan, then str::parse::<f64> on the scanned slice, which
\* needs a digit in the mantissa and, after an exponent mark, in the exponent.
parse_number(bytes, start) ==
    LET finish(i1, i2, dot, i3, exp, i4, i5) ==
            IF /\ (i2 - i1) + (IF dot THEN i3 - (i2 + 1) ELSE 0) > 0
               /\ (exp => i5 > i4)
            THEN POk(JsonNumber(Slice(bytes, start, i5)), i5)
            ELSE PErr("invalid number literal")
        exponent_digits(i1, i2, dot, i3, exp, i4) ==
            finish(i1, i2, dot, i3, exp, i4,
                   IF exp THEN consume_digits(bytes, i4) ELSE i3)
        exponent(i1, i2, dot, i3, exp) ==
            exponent_digits(i1, i2, dot, i3, exp,
                IF exp THEN try_consume(bytes, i3 + 1, {"+", "-"}) ELSE i3)
        fraction_digits(i1, i2, dot, i3) ==
            exponent(i1, i2, dot, i3,
                     peek(bytes, i3) \in {Some("e"), Some("E")})
        fraction(i1, i2, dot) ==
            fraction_digits(i1, i2, dot,
                IF dot THEN consume_digits(bytes, i2 + 1) ELSE i2)
        integer_digits(i1, i2) ==
            fraction(i1, i2, peek(bytes, i2) = Some("."))
        sign(i1) == integer_digits(i1, consume_digits(bytes, i1))
    IN  sign(try_consume(bytes, start, {"-"}))

RECURSIVE parse_value(_, _)
RECURSIVE parse_array_loop(_, _, _)
RECURSIVE parse_object_loop(_, _, _)

parse_array_loop(bytes, i, arr) ==
    LET separator(arr2, j) ==
            IF peek(bytes, j) = Some("]") THEN POk(JsonArray(arr2), j + 1)
            ELSE IF peek(bytes, j) = Some(",")
            THEN parse_array_loop(bytes, j + 1, arr2)
            ELSE PErr("unexpected token")
        of_item(item) ==
            IF ~item.ok THEN item
            ELSE separator(Append(arr, item.value), skip_ws(bytes, item.i))
    IN  of_item(parse_value(bytes, i))

parse_array(bytes, i) ==
    LET first(j) ==
            IF peek(bytes, j) = Some("]") THEN POk(JsonArray(<<>>), j + 1)
            ELSE parse_array_loop(bytes, j, <<>>)
    IN  first(skip_ws(bytes, i + 1))

parse_object_loop(bytes, i, map) ==
    LET separator(map2, j) ==
            IF peek(bytes, j) = Some("}") THEN POk(JsonObject(map2), j + 1)
            ELSE IF peek(bytes, j) = Some(",")
            THEN parse_object_loop(bytes, j + 1, map2)
            ELSE PErr("unexpected token")
        of_value(key, value) ==
            IF ~value.ok THEN value
            ELSE separator(btree_insert(map, key.value, value.value),
                           skip_ws(bytes, value.i))
        colon(key, c) ==
            IF peek(bytes, c) # Some(":") THEN PErr("unexpected token")
            ELSE of_value(key, parse_value(bytes, c + 1))
        of_key(key) ==
            IF ~key.ok THEN key ELSE colon(key, skip_ws(bytes, key.i))
    IN  of_key(parse_string(bytes, skip_ws(bytes, i)))

parse_object(bytes, i) ==
    LET first(j) ==
            IF peek(bytes, j) = Some("}") THEN POk(JsonObject(<<>>), j + 1)
            ELSE parse_object_loop(bytes, j, <<>>)
    IN  first(skip_ws(bytes, i + 1))

parse_value(bytes, i0) ==
    LET string(r) == IF r.ok THEN POk(JsonString(r.value), r.i) ELSE r
        dispatch(i, b) ==
            IF IsNone(b) THEN PErr("unexpected end of JSON")
            ELSE IF b = Some("n")
            THEN IF MatchAt(bytes, <<"n", "u", "l", "l">>, i)
                 THEN POk(JsonNull, i + 4) ELSE PErr("unexpected token")
            ELSE IF b \in {Some("t"), Some("f")}
            THEN IF MatchAt(bytes, <<"t", "r", "u", "e">>, i)
                 THEN POk(JsonBool(TRUE), i + 4)
                 ELSE IF MatchAt(bytes, <<"f", "a", "l", "s", "e">>, i)
                 THEN POk(JsonBool(FALSE), i + 5)
                 ELSE PErr("invalid boolean")
            ELSE IF b = Some("\"") THEN string(parse_string(bytes, i))
            ELSE IF b = Some("[") THEN parse_array(bytes, i)
            ELSE IF b = Some("{") THEN parse_object(bytes, i)
            ELSE IF b \in {Some(d) : d \in Digits \cup {"-"}}
            THEN parse_number(bytes, i)
            ELSE PErr("unexpected token in JSON")
        at(i) == dispatch(i, peek(bytes, i))
    IN  at(skip_ws(bytes, i0))

\* Result<JsonValue, JsonError>: Ok is Some(value) and Err is None (callers
\* only ask whether parsing succeeded).
parse_json(input) ==
    LET complete(value) ==
            IF ~value.ok THEN None
            ELSE IF skip_ws(input, value.i) # Len(input) THEN None
            ELSE Some(value.value)
    IN  complete(parse_value(input, 0))

(***************************************************************************)
(* normative/models.rs                                                     *)
(***************************************************************************)
Modality == {"Assertive", "Conditional", "Refusal", "Descriptive"}
Scope == {"Factual", "Contextual"}
EvaluationStatus ==
    {"WellFormed", "IllFormed", "Unsupported", "Underdetermined",
     "ConditionallyAcceptable", "ViolatesNorm", "Acceptable",
     "NoNormativeContent"}
LinkRole == {"Supports", "Disambiguates", "Contextualizes"}

\* KnowledgeNode::new with the invariants it enforces (confidence is 1.0 at
\* every construction site of the crate and is carried as the integer 1).
KnowledgeNode(id, scope, strength, semantic_id) ==
    [id |-> id, source |-> "Observed", status |-> "Confirmed",
     confidence |-> 1, scope |-> scope, strength |-> strength,
     semantic_id |-> semantic_id]

is_empty(gs) == Len(gs) = 0

has_factual_any_scope(gs) == Len(gs) > 0

has_factual(gs) == iter_any(gs, LAMBDA k : k.scope = "Factual")

\* The strength of the first node in scope, whatever the later nodes are.
get_scope_strength_first(gs, scope) ==
    LET inScope == {i \in 1..Len(gs) : gs[i].scope = scope}
    IN  IF inScope = {} THEN None ELSE Some(gs[Min(inScope)].strength)

\* The first strong node in scope decides; otherwise weak if any is in scope.
get_scope_strength(gs, scope) ==
    IF iter_any(gs, LAMBDA n : n.scope = scope /\ n.strength = "strong")
    THEN Some("strong")
    ELSE IF iter_any(gs, LAMBDA n : n.scope = scope) THEN Some("weak") ELSE None

resolve_ground_id_only(gs, ground_id) ==
    LET byId == {i \in 1..Len(gs) : gs[i].id = ground_id}
    IN  IF byId # {} THEN Some(gs[Min(byId)]) ELSE None

\* First node whose id matches; only then first node whose semantic id does.
resolve_ground(gs, ground_id) ==
    LET byId == {i \in 1..Len(gs) : gs[i].id = ground_id}
        bySem == {i \in 1..Len(gs) : gs[i].semantic_id = Some(ground_id)}
    IN  IF byId # {} THEN Some(gs[Min(byId)])
        ELSE IF bySem # {} THEN Some(gs[Min(bySem)])
        ELSE None

permits_nonempty(lic, modality) == lic # {}

permits(lic, modality) == modality \in lic

(***************************************************************************)
(* normative/license_deriver.rs                                            *)
(***************************************************************************)
license_from(modalities) == modalities

derive_conservative(gs) ==
    IF is_empty(gs) THEN license_from({"Refusal"})
    ELSE LET factual_strength == get_scope_strength(gs, "Factual")
         IN  IF IsNone(factual_strength) THEN license_from({"Refusal"})
             ELSE IF factual_strength = Some("strong")
                  THEN license_from({"Assertive", "Conditional", "Refusal"})
                  ELSE license_from({"Conditional", "Refusal"})

\* The resolved nodes of the links, in link order (unresolved links dropped).
RECURSIVE ResolveAll(_, _)
ResolveAll(gs, ls) ==
    IF ls = <<>> THEN <<>>
    ELSE resolve_ground(gs, Head(ls).ground_id) \o ResolveAll(gs, Tail(ls))

derive_with_links_any_role(gs, link_set) ==
    LET used == ResolveAll(gs, link_set)
        factual == SelectSeq(used, LAMBDA g : g.scope = "Factual")
    IN  IF factual = <<>> THEN license_from({"Refusal"})
        ELSE IF iter_any(factual, LAMBDA g : g.strength = "strong")
             THEN license_from({"Assertive", "Conditional", "Refusal"})
             ELSE license_from({"Conditional", "Refusal"})

\* derive_with_links trusting a Supports link without resolving its ground.
derive_with_links_unresolved(gs, link_set) ==
    IF SelectSeq(link_set, LAMBDA l : l.role = "Supports") = <<>>
    THEN license_from({"Refusal"})
    ELSE license_from({"Assertive", "Conditional", "Refusal"})

derive_with_links(gs, link_set) ==
    LET support_links == SelectSeq(link_set, LAMBDA l : l.role = "Supports")
    IN  IF support_links = <<>> THEN license_from({"Refusal"})
        ELSE LET used == ResolveAll(gs, support_links)
             IN  IF used = <<>> THEN license_from({"Refusal"})
                 ELSE LET factual ==
                              SelectSeq(used, LAMBDA g : g.scope = "Factual")
                      IN  IF factual = <<>> THEN license_from({"Refusal"})
                          ELSE IF iter_any(factual, LAMBDA g : g.strength = "strong")
                               THEN license_from(
                                      {"Assertive", "Conditional", "Refusal"})
                               ELSE license_from({"Conditional", "Refusal"})

derive_always_conservative(gs, link_opt) == derive_conservative(gs)

\* links: Option<&LinkSet>.
derive(gs, link_opt) ==
    IF IsSome(link_opt) THEN derive_with_links(gs, Unwrap(link_opt))
    ELSE derive_conservative(gs)

(***************************************************************************)
(* normative/axiom_checker.rs                                              *)
(***************************************************************************)
AxiomCheckResult(status, violated_axiom, explanation) ==
    [status |-> status, violated_axiom |-> violated_axiom,
     explanation |-> explanation]

AxiomChecker_is_normative(st) ==
    st.modality = Some("Assertive") \/ st.modality = Some("Conditional")

\* Rules 4..7 of check: what follows the Conditional block.
check_tail(st, lic, gs) ==
    IF AxiomChecker_is_normative(st) /\ is_empty(gs)
    THEN AxiomCheckResult("Unsupported", Some("A4"),
                          "Normative claim without grounding")
    ELSE IF st.modality = Some("Descriptive")
    THEN IF has_factual(gs)
         THEN AxiomCheckResult("Acceptable", None,
                  "Descriptive statement grounded in factual knowledge")
         ELSE AxiomCheckResult("Unsupported", Some("A4"),
                  "Descriptive statement without factual grounding")
    ELSE IF IsSome(st.modality)
    THEN IF permits(lic, Unwrap(st.modality))
         THEN AxiomCheckResult("Acceptable", None,
                  "Statement modality ({}) permitted by license")
         ELSE AxiomCheckResult("Underdetermined", None,
                  "Cannot determine status (modality={}, license={:?})")
    ELSE AxiomCheckResult("Underdetermined", None,
             "Cannot determine status (modality=None)")

\* The Conditional block without its "license permits Assertive" shortcut.
check_conditional_no_shortcut(st, lic) ==
    IF st.conditions # <<>>
    THEN AxiomCheckResult("ConditionallyAcceptable", None,
             "Conditional statement with declared conditions: {:?}")
    ELSE AxiomCheckResult("Unsupported", Some("A7"),
             "Conditional statement without declared conditions")

\* Rule 3 of check: the Conditional block, which always returns.
check_conditional(st, lic) ==
    IF permits(lic, "Assertive")
    THEN AxiomCheckResult("ConditionallyAcceptable", None,
             "Conditional form chosen by agent (ASSERTIVE also permitted by grounding)")
    ELSE IF st.conditions # <<>>
    THEN AxiomCheckResult("ConditionallyAcceptable", None,
             "Conditional statement with declared conditions: {:?}")
    ELSE AxiomCheckResult("Unsupported", Some("A7"),
             "Conditional statement without declared conditions")

\* A refusal is accepted only when the license permits it.
check_refusal_needs_license(st, lic, gs) ==
    IF st.modality = Some("Refusal") /\ permits(lic, "Refusal")
    THEN AxiomCheckResult("Acceptable", None,
             "Explicit refusal is always admissible (A6)")
    ELSE IF st.modality = Some("Assertive") /\ ~permits(lic, "Assertive")
    THEN AxiomCheckResult("ViolatesNorm", Some("A5"),
             "Assertive statement without sufficient grounding (categoricity ban)")
    ELSE IF st.modality = Some("Conditional")
    THEN check_conditional(st, lic)
    ELSE check_tail(st, lic, gs)

\* The empty-ground-set rule tested before the A5 and Conditional rules.
check_empty_ground_first(st, lic, gs) ==
    IF st.modality = Some("Refusal")
    THEN AxiomCheckResult("Acceptable", None,
             "Explicit refusal is always admissible (A6)")
    ELSE IF AxiomChecker_is_normative(st) /\ is_empty(gs)
    THEN AxiomCheckResult("Unsupported", Some("A4"),
                          "Normative claim without grounding")
    ELSE IF st.modality = Some("Assertive") /\ ~permits(lic, "Assertive")
    THEN AxiomCheckResult("ViolatesNorm", Some("A5"),
             "Assertive statement without sufficient grounding (categoricity ban)")
    ELSE IF st.modality = Some("Conditional")
    THEN check_conditional(st, lic)
    ELSE check_tail(st, lic, gs)

\* AxiomChecker::check (the task goal is unused by the code).
check(st, lic, gs) ==
    IF st.modality = Some("Refusal")
    THEN AxiomCheckResult("Acceptable", None,
             "Explicit refusal is always admissible (A6)")
    ELSE IF st.modality = Some("Assertive") /\ ~permits(lic, "Assertive")
    THEN AxiomCheckResult("ViolatesNorm", Some("A5"),
             "Assertive statement without sufficient grounding (categoricity ban)")
    ELSE IF st.modality = Some("Conditional")
    THEN check_conditional(st, lic)
    ELSE check_tail(st, lic, gs)

(***************************************************************************)
(* models.rs: grounds and links; citations.rs                              *)
(***************************************************************************)
Provenance(creator, evidence_type, evidence_content, signature) ==
    [creator |-> creator, evidence_type |-> evidence_type,
     evidence_content |-> evidence_content, signature |-> signature]

StatementGroundLink(statement_id, ground_id, role, provenance) ==
    [statement_id |-> statement_id, ground_id |-> ground_id, role |-> role,
     provenance |-> provenance]

Ground(citation_key, ground_id, role, creator, evidence_content) ==
    [citation_key |-> citation_key, ground_id |-> ground_id, role |-> role,
     creator |-> creator, evidence_type |-> "Observation",
     evidence_content |-> evidence_content, signature |-> None]

is_valid_citation_key(key) ==
    /\ key # <<>>
    /\ is_ascii_alphabetic(key[1])
    /\ \A j \in 2..Len(key) :
          is_ascii_alphanumeric(key[j]) \/ key[j] = "_" \/ key[j] = "-"

\* The while loop of extract_citation_keys from 0-based offset i, with the
\* keys pushed so far (the seen set holds exactly the pushed keys).
RECURSIVE extract_citation_keys_from(_, _, _)
extract_citation_keys_from(text, i, keys) ==
    LET push(end, candidate, pushed) ==
            extract_citation_keys_from(text, end + 1,
                IF pushed THEN Append(keys, candidate) ELSE keys)
        of_candidate(start, end, candidate) ==
            push(end, candidate,
                 /\ end < Len(text)
                 /\ end > start
                 /\ is_valid_citation_key(candidate)
                 /\ ~iter_any(keys, LAMBDA k : k = candidate))
        close(start, end) == of_candidate(start, end, Slice(text, start, end))
        closers(start, found) ==
            close(start, IF found = {} THEN Len(text) ELSE Min(found))
        marker(start) ==
            closers(start, {e \in start..(Len(text) - 1) : text[e + 1] = "]"})
    IN  IF ~(i + 2 < Len(text)) THEN keys
        ELSE IF text[i + 1] = "[" /\ text[i + 2] = "@" THEN marker(i + 2)
        ELSE extract_citation_keys_from(text, i + 1, keys)

extract_citation_keys(text) ==
    IF text = <<>> THEN <<>> ELSE extract_citation_keys_from(text, 0, <<>>)

\* The links in the order of the grounds, not of the cited keys.
build_links_in_ground_order(text, grounds, statement_id) ==
    LET link(ground) ==
            StatementGroundLink(statement_id, ground.ground_id, ground.role,
                Provenance(ground.creator, ground.evidence_type,
                    IF IsSome(ground.evidence_content)
                    THEN ground.evidence_content
                    ELSE Some(<<"c", "i", "t", "a", "t", "i", "o", "n", "_", "k", "e", "y", "=">> \o ground.citation_key),
                    ground.signature))
        cited(keys) ==
            SelectSeq(grounds,
                LAMBDA g : iter_any(keys, LAMBDA k : k = g.citation_key))
        links_of(gs) == [j \in 1..Len(gs) |-> link(gs[j])]
    IN  links_of(cited(extract_citation_keys(text)))

\* One link per (cited key, ground carrying that key), keys in citation
\* order and grounds in their given order.
build_links_from_grounds(text, grounds, statement_id) ==
    LET link(key, ground) ==
            StatementGroundLink(statement_id, ground.ground_id, ground.role,
                Provenance(ground.creator, ground.evidence_type,
                    IF IsSome(ground.evidence_content)
                    THEN ground.evidence_content
                    ELSE Some(<<"c", "i", "t", "a", "t", "i", "o", "n", "_", "k", "e", "y", "=">> \o key),
                    ground.signature))
        for_key(key, matching) ==
            [j \in 1..Len(matching) |-> link(key, matching[j])]
        by_key(key) ==
            for_key(key, SelectSeq(grounds, LAMBDA g : g.citation_key = key))
        for_keys(keys) == Flatten([k \in 1..Len(keys) |-> by_key(keys[k])])
    IN  for_keys(extract_citation_keys(text))

\* tool_call_refs is a BTreeMap: a sequence of <<key, ids>> in key order.
grounds_from_tool_call_refs(tool_call_refs) ==
    Flatten([e \in 1..Len(tool_call_refs) |->
        [j \in 1..Len(tool_call_refs[e][2]) |->
            Ground(tool_call_refs[e][1], tool_call_refs[e][2][j], "Supports",
                   "ToolObserver",
                   Some(<<"t", "o", "o", "l", "_", "c", "a", "l", "l", "_", "i", "d", "=">>
                        \o tool_call_refs[e][1]))]])

(***************************************************************************)
(* normative/knowledge_builder.rs                                          *)
(***************************************************************************)
ToolResultSpeechAct(tool_name, tool_call_id, result_text) ==
    [tool_name |-> tool_name, tool_call_id |-> tool_call_id,
     result_text |-> result_text]

\* u64 values are four 16-bit limbs, least significant first.
Limb == 65536

RECURSIVE xor_bits(_, _, _)
xor_bits(a, b, n) ==
    IF n = 0 THEN 0
    ELSE ((a + b) % 2) + 2 * xor_bits(a \div 2, b \div 2, n - 1)

\* hash ^= b as u64
u64_xor_byte(h, b) ==
    [h EXCEPT ![1] = (h[1] - (h[1] % 256)) + xor_bits(h[1] % 256, b, 8)]

\* hash.wrapping_mul(1099511628211), the multiplier being 2^40 + 435:
\* hash * 435 plus hash shifted left by 40 bits, modulo 2^64.
u64_wrapping_mul_prime(h) ==
    LET sum(t1, t2, t3, t4, s3, s4) ==
            <<t1 % Limb, t2 % Limb, ((t3 % Limb) + s3) % Limb,
              ((t4 % Limb) + s4 + (((t3 % Limb) + s3) \div Limb)) % Limb>>
        mul4(t1, t2, t3) ==
            sum(t1, t2, t3, h[4] * 435 + (t3 \div Limb),
                (h[1] * 256) % Limb, (h[2] * 256 + (h[1] \div 256)) % Limb)
        mul3(t1, t2) == mul4(t1, t2, h[3] * 435 + (t2 \div Limb))
        mul2(t1) == mul3(t1, h[2] * 435 + (t1 \div Limb))
    IN  mul2(h[1] * 435)

\* let mut hash: u64 = 1469598103934665603, which is 0x14650fb0739d0383.
FnvOffsetBasis == <<899, 29597, 4016, 5221>>

\* The for loop of stable_id_fragment over the bytes left (the hash is
\* computed at every byte: its length test is always true).
RECURSIVE fnv1a(_, _)
fnv1a(hash, bytes) ==
    IF Len(hash) = 4 /\ bytes # <<>>
    THEN fnv1a(u64_wrapping_mul_prime(u64_xor_byte(hash, ByteOf[Head(bytes)])),
               Tail(bytes))
    ELSE hash

HexDigits ==
    <<"0", "1", "2", "3", "4", "5", "6", "7", "8", "9", "a", "b", "c", "d", "e", "f">>

\* The four lower-case hex digits of a limb.
hex4(v) ==
    <<HexDigits[(v \div 4096) + 1], HexDigits[((v \div 256) % 16) + 1],
      HexDigits[((v \div 16) % 16) + 1], HexDigits[(v % 16) + 1]>>

\* format!("{hash:016x}")
hex016(h) == hex4(h[4]) \o hex4(h[3]) \o hex4(h[2]) \o hex4(h[1])

stable_id_fragment(value) ==
    Slice(hex016(fnv1a(FnvOffsetBasis, value)), 0, 10)

\* The hash truncated to 32 bits before it is rendered.
stable_id_fragment_low_half(value) ==
    LET low(hash) == Slice(hex016(<<hash[1], hash[2], 0, 0>>), 0, 10)
    IN  low(fnv1a(FnvOffsetBasis, value))

MemoryMarkers ==
    <<
      <<"s", "a", "v", "e">>,
      <<"n", "o", "t", "e">>,
      <<"n", "o", "t", "e", "s">>,
      <<"l", "o", "a", "d">>,
      <<"c", "o", "n", "s", "o", "l", "i", "d", "a", "t">>,
      <<"d", "i", "s", "t", "i", "l", "l">>,
      <<"s", "t", "a", "t", "e">>
    >>
ProfileMarkers ==
    <<
      <<"s", "a", "v", "e">>,
      <<"s", "e", "t">>,
      <<"u", "p", "d", "a", "t", "e">>,
      <<"l", "o", "a", "d">>,
      <<"c", "o", "n", "s", "o", "l", "i", "d", "a", "t">>
    >>
PreferenceMarkers ==
    <<
      <<"r", "e", "m", "e", "m", "b", "e", "r">>,
      <<"p", "r", "e", "f", "e", "r", "e", "n", "c", "e">>,
      <<"p", "r", "e", "f", "e", "r", "e", "n", "c", "e", "s">>,
      <<"s", "e", "t", "t", "i", "n", "g">>,
      <<"s", "e", "t", "t", "i", "n", "g", "s">>
    >>
is_non_epistemic_tool(tool_name) ==
    LET matches(name) ==
            \/ name = <<"g", "e", "t", "_", "u", "s", "e", "r", "_", "c", "o", "g", "n", "i", "t", "i", "v", "e", "_", "c", "o", "n", "t", "e", "x", "t">>
            \/ contains(name, <<"p", "e", "r", "s", "o", "n", "a", "l", "i", "z", "a", "t", "i", "o", "n">>)
            \/ contains(name, <<"p", "e", "r", "s", "o", "n", "a", "l", "_", "c", "o", "n", "t", "e", "x", "t">>)
            \/ (contains(name, <<"m", "e", "m", "o", "r", "y">>) /\ contains_any(name, MemoryMarkers))
            \/ (contains(name, <<"p", "r", "o", "f", "i", "l", "e">>) /\ contains_any(name, ProfileMarkers))
            \/ contains_any(name, PreferenceMarkers)
    IN  matches(to_lowercase(tool_name))

\* str::strip_suffix
strip_suffix(s, suffix) ==
    IF ends_with(s, suffix) THEN Some(Slice(s, 0, Len(s) - Len(suffix)))
    ELSE None

\* The first field in key order with the suffix and a string value.
entity_id_by_suffix(map, suffix) ==
    LET id_of(e) == Unwrap(strip_suffix(map[e][1], suffix)) \o <<"_">>
                    \o Unwrap(as_str(map[e][2]))
        first(hits) == IF hits = {} THEN None ELSE Some(id_of(Min(hits)))
    IN  first({e \in 1..Len(map) :
                  /\ IsSome(strip_suffix(map[e][1], suffix))
                  /\ IsSome(as_str(map[e][2]))})

extract_entity_id(map) ==
    LET or_by_id(by_key) ==
            IF IsSome(by_key) THEN by_key
            ELSE entity_id_by_suffix(map, <<"_", "i", "d">>)
    IN  or_by_id(entity_id_by_suffix(map, <<"_", "k", "e", "y">>))

SemanticOne(v) == [kind |-> "One", id |-> v]
SemanticMany(ids) == [kind |-> "Many", ids |-> ids]

extract_semantic_id(tool_result) ==
    LET many(ids) == IF ids = <<>> THEN None ELSE Some(SemanticMany(ids))
        one(id) == IF IsSome(id) THEN Some(SemanticOne(Unwrap(id))) ELSE None
        of_items(items) ==
            many(Flatten([k \in 1..Len(items) |->
                     IF items[k].kind = "Object"
                     THEN extract_entity_id(items[k].map)
                     ELSE None]))
        of_data(data) ==
            IF IsNone(data) THEN None
            ELSE IF Unwrap(data).kind = "Array" THEN of_items(Unwrap(data).items)
            ELSE IF Unwrap(data).kind = "Object"
            THEN one(extract_entity_id(Unwrap(data).map))
            ELSE None
    IN  IF trim(tool_result.result_text) = <<>> THEN None
        ELSE of_data(parse_json(tool_result.result_text))

\* usize rendered by format!("{idx}").
RECURSIVE usize_to_string(_)
usize_to_string(n) ==
    IF n < 10 THEN <<HexDigits[n + 1]>>
    ELSE usize_to_string(n \div 10) \o <<HexDigits[(n % 10) + 1]>>

unwrap_or_default(o) == IF IsSome(o) THEN Unwrap(o) ELSE <<>>

\* A node only for a result text that names an entity.
tool_result_to_knowledge_named_only(tool_result) ==
    IF \/ is_non_epistemic_tool(IF tool_result.tool_name = <<>>
                                THEN <<"u", "n", "k", "n", "o", "w", "n">> ELSE tool_result.tool_name)
       \/ IsNone(extract_semantic_id(tool_result))
    THEN None
    ELSE Some(<<KnowledgeNode(<<"t", "o", "o", "l", "_">> \o tool_result.tool_name, "Factual",
                              "strong", None)>>)

\* Option<Vec<KnowledgeNode>>: None for a non-epistemic tool.
tool_result_to_knowledge(tool_result) ==
    LET item(tool_name, ids, idx) ==
            KnowledgeNode(
                <<"t", "o", "o", "l", "_">> \o tool_name \o <<"_", "i", "t", "e", "m">>
                    \o usize_to_string(idx) \o <<"_">>
                    \o stable_id_fragment(tool_name \o <<":">> \o ids[idx + 1]),
                "Factual", "strong", Some(ids[idx + 1]))
        single(tool_name, extracted) ==
            KnowledgeNode(
                <<"t", "o", "o", "l", "_">> \o tool_name \o <<"_">>
                    \o stable_id_fragment(
                         tool_name \o <<":">> \o tool_result.result_text \o <<":">>
                         \o unwrap_or_default(tool_result.tool_call_id)),
                "Factual", "strong",
                IF IsSome(extracted) /\ Unwrap(extracted).kind = "One"
                THEN Some(Unwrap(extracted).id) ELSE None)
        nodes(tool_name, extracted) ==
            IF IsSome(extracted) /\ Unwrap(extracted).kind = "Many"
            THEN Some([k \in 1..Len(Unwrap(extracted).ids) |->
                          item(tool_name, Unwrap(extracted).ids, k - 1)])
            ELSE Some(<<single(tool_name, extracted)>>)
        of_tool(tool_name) ==
            IF is_non_epistemic_tool(tool_name) THEN None
            ELSE nodes(tool_name, extract_semantic_id(tool_result))
    IN  of_tool(IF tool_result.tool_name = <<>>
                THEN <<"u", "n", "k", "n", "o", "w", "n">>
                ELSE tool_result.tool_name)

\* The loop of build_with_references: <<nodes, refs>> after the results.
RECURSIVE build_with_references_from(_, _, _)
build_with_references_from(tool_results, nodes, refs) ==
    LET ids_of(produced) ==
            [k \in 1..Len(produced) |->
                IF IsSome(produced[k].semantic_id)
                THEN Unwrap(produced[k].semantic_id)
                ELSE produced[k].id]
        refs_with(result, ids) ==
            IF IsSome(result.tool_call_id) /\ ids # <<>>
            THEN btree_insert(refs, Unwrap(result.tool_call_id), ids)
            ELSE refs
        after(result, maybe) ==
            IF IsNone(maybe)
            THEN build_with_references_from(Tail(tool_results), nodes, refs)
            ELSE build_with_references_from(Tail(tool_results),
                     nodes \o Unwrap(maybe),
                     refs_with(result, ids_of(Unwrap(maybe))))
    IN  IF tool_results = <<>> THEN <<nodes, refs>>
        ELSE after(Head(tool_results),
                   tool_result_to_knowledge(Head(tool_results)))

build_with_references(tool_results) ==
    build_with_references_from(tool_results, <<>>, <<>>)

\* Grounds naming an id or semantic id already present add nothing; the
\* membership test is against the nodes given, not the nodes added so far.
materialize_external_grounds(knowledge_nodes, grounds) ==
    LET existing_ids ==
            {knowledge_nodes[k].id : k \in 1..Len(knowledge_nodes)}
        existing_semantic_ids ==
            {Unwrap(knowledge_nodes[k].semantic_id) :
                k \in {j \in 1..Len(knowledge_nodes) :
                         IsSome(knowledge_nodes[j].semantic_id)}}
        node_of(ground) ==
            KnowledgeNode(ground.ground_id, "Factual", "strong",
                          Some(ground.ground_id))
        expanded(fresh) ==
            knowledge_nodes \o [k \in 1..Len(fresh) |-> node_of(fresh[k])]
    IN  IF grounds = <<>> THEN knowledge_nodes
        ELSE expanded(SelectSeq(grounds, LAMBDA g :
                          /\ g.ground_id \notin existing_ids
                          /\ g.ground_id \notin existing_semantic_ids))

(***************************************************************************)
(* normative/extractor.rs                                                  *)
(***************************************************************************)
\* The elements of a finite set of numbers in increasing order.
SortedSeq(S) ==
    [k \in 1..Cardinality(S) |->
        CHOOSE x \in S : Cardinality({y \in S : y < x}) = k - 1]

\* split_sentences: the text is cut after every '.', '!' and '?'; each piece
\* and the tail are trimmed, and the empty ones are dropped.
split_sentences(text) ==
    LET pieces(cuts) ==
            [k \in 1..Len(cuts) |->
                trim(SubSeq(text, IF k = 1 THEN 1 ELSE cuts[k - 1] + 1,
                            cuts[k]))]
            \o <<trim(SubSeq(text,
                             IF cuts = <<>> THEN 1 ELSE cuts[Len(cuts)] + 1,
                             Len(text)))>>
    IN  SelectSeq(
            pieces(SortedSeq({i \in 1..Len(text) : text[i] \in {".", "!", "?"}})),
            LAMBDA p : p # <<>>)

GreetingNormativeMarkers ==
    <<
      <<"s", "h", "o", "u", "l", "d">>,
      <<"m", "u", "s", "t">>,
      <<"r", "e", "c", "o", "m", "m", "e", "n", "d">>,
      <<"p", "r", "i", "o", "r", "i", "t", "i", "z", "e">>,
      <<"b", "l", "o", "c", "k">>,
      <<"d", "e", "p", "e", "n", "d", "s", " ", "o", "n">>,
      <<"i", "s", " ", "b", "l", "o", "c", "k", "e", "d">>,
      <<"i", "s", " ", "b", "e", "t", "t", "e", "r">>,
      <<"b", "e", "t", "t", "e", "r", " ", "f", "o", "r", " ", "y", "o", "u">>,
      <<"i", "f", " ">>,
      <<"c", "a", "n", "n", "o", "t", " ", "d", "e", "t", "e", "r", "m", "i", "n", "e">>,
      <<"n", "o", "t", " ", "e", "n", "o", "u", "g", "h", " ", "i", "n", "f", "o", "r", "m", "a", "t", "i", "o", "n">>,
      <<"i", " ", "w", "o", "u", "l", "d", " ", "n", "o", "t">>,
      <<"i", " ", "w", "o", "n", "'", "t">>,
      <<"f", "o", "r", " ", "y", "o", "u">>,
      <<"g", "i", "v", "e", "n", " ", "y", "o", "u", "r">>,
      <<"b", "a", "s", "e", "d", " ", "o", "n", " ", "y", "o", "u", "r">>
    >>

GreetingPrefixes ==
    <<
      <<"h", "e", "l", "l", "o">>,
      <<"h", "i">>,
      <<"h", "e", "y">>,
      <<"g", "r", "e", "e", "t", "i", "n", "g", "s">>,
      <<"g", "o", "o", "d", " ", "m", "o", "r", "n", "i", "n", "g">>,
      <<"g", "o", "o", "d", " ", "a", "f", "t", "e", "r", "n", "o", "o", "n">>,
      <<"g", "o", "o", "d", " ", "e", "v", "e", "n", "i", "n", "g">>,
      <<"t", "h", "a", "n", "k", "s", " ", "f", "o", "r", " ", "a", "s", "k", "i", "n", "g">>,
      <<"i", "'", "m", " ", "d", "o", "i", "n", "g", " ", "w", "e", "l", "l">>,
      <<"i", " ", "a", "m", " ", "d", "o", "i", "n", "g", " ", "w", "e", "l", "l">>,
      <<"i", "'", "m", " ", "r", "e", "a", "d", "y">>,
      <<"i", " ", "a", "m", " ", "r", "e", "a", "d", "y">>,
      <<"i", "'", "m", " ", "h", "e", "r", "e">>,
      <<"i", " ", "a", "m", " ", "h", "e", "r", "e">>,
      <<"h", "o", "p", "e", " ", "y", "o", "u", "'", "r", "e", " ", "d", "o", "i", "n", "g", " ", "w", "e", "l", "l">>,
      <<"h", "o", "p", "e", " ", "y", "o", "u", " ", "a", "r", "e", " ", "d", "o", "i", "n", "g", " ", "w", "e", "l", "l">>
    >>

QuestionNormativeMarkers ==
    <<
      <<"s", "h", "o", "u", "l", "d">>,
      <<"m", "u", "s", "t">>,
      <<"r", "e", "c", "o", "m", "m", "e", "n", "d">>,
      <<"i", "f", " ">>
    >>

ProtocolSuffixMarkers ==
    <<
      <<"i", " ", "c", "a", "n", " ", "h", "e", "l", "p">>,
      <<"l", "e", "t", " ", "m", "e", " ", "k", "n", "o", "w", " ", "i", "f">>,
      <<"f", "e", "e", "l", " ", "f", "r", "e", "e", " ", "t", "o", " ", "a", "s", "k">>,
      <<"h", "o", "w", " ", "c", "a", "n", " ", "i", " ", "h", "e", "l", "p">>,
      <<"w", "o", "u", "l", "d", " ", "y", "o", "u", " ", "l", "i", "k", "e">>
    >>

AnyNormativeMarkers ==
    <<
      <<"s", "h", "o", "u", "l", "d">>,
      <<"m", "u", "s", "t">>,
      <<"r", "e", "c", "o", "m", "m", "e", "n", "d">>,
      <<"p", "r", "i", "o", "r", "i", "t", "i", "z", "e">>,
      <<"b", "l", "o", "c", "k", "s">>,
      <<"i", "s", " ", "b", "l", "o", "c", "k", "e", "d">>,
      <<"d", "e", "p", "e", "n", "d", "s", " ", "o", "n">>,
      <<"i", "f", " ">>,
      <<"f", "o", "r", " ", "y", "o", "u">>,
      <<"g", "i", "v", "e", "n", " ", "y", "o", "u", "r">>,
      <<"b", "a", "s", "e", "d", " ", "o", "n", " ", "y", "o", "u", "r">>,
      <<"i", " ", "w", "o", "u", "l", "d", " ", "n", "o", "t">>,
      <<"c", "a", "n", "n", "o", "t", " ", "d", "e", "t", "e", "r", "m", "i", "n", "e">>
    >>

StrongNormativeMarkers ==
    <<
      <<"s", "h", "o", "u", "l", "d">>,
      <<"m", "u", "s", "t">>,
      <<"r", "e", "c", "o", "m", "m", "e", "n", "d">>,
      <<"p", "r", "i", "o", "r", "i", "t", "i", "z", "e">>,
      <<"b", "l", "o", "c", "k", "s">>,
      <<"d", "e", "p", "e", "n", "d", "s", " ", "o", "n">>,
      <<"i", "f", " ">>
    >>

ProtocolMarkers ==
    <<
      <<"i", " ", "c", "a", "n">>,
      <<"h", "o", "w", " ", "c", "a", "n", " ", "i">>,
      <<"w", "h", "a", "t", " ", "c", "a", "n", " ", "i">>,
      <<"t", "h", "a", "n", "k", "s", " ", "f", "o", "r">>,
      <<"l", "e", "t", " ", "m", "e", " ", "k", "n", "o", "w">>,
      <<"f", "e", "e", "l", " ", "f", "r", "e", "e">>,
      <<"h", "o", "p", "e", " ", "y", "o", "u">>
    >>

\* The passes of strip_protocol_suffix that are left: a pass cuts the text at
\* the last occurrence of the first marker (in list order) that occurs.
RECURSIVE strip_protocol_suffix_passes(_, _)
strip_protocol_suffix_passes(out, passes) ==
    LET cut_at(idx) ==
            trim_end_matches(trim(Slice(out, 0, idx)),
                             LAMBDA c : c \in {".", ",", ";"})
        pass(lower, found) ==
            IF found = {} THEN out
            ELSE strip_protocol_suffix_passes(
                     cut_at(Unwrap(rfind(lower, ProtocolSuffixMarkers[Min(found)]))),
                     passes - 1)
        scan(lower) ==
            pass(lower, {m \in 1..Len(ProtocolSuffixMarkers) :
                            contains(lower, ProtocolSuffixMarkers[m])})
    IN  IF passes = 0 THEN out ELSE scan(to_lowercase(out))

\* A single pass instead of "for _ in 0..5".
strip_protocol_suffix_once(text) == strip_protocol_suffix_passes(trim(text), 1)

strip_protocol_suffix(text) == strip_protocol_suffix_passes(trim(text), 5)

\* The loop of strip_protocol_prefix_sentences from sentence idx (1-based).
RECURSIVE kept_sentences(_, _, _)
kept_sentences(sentences, idx, kept) ==
    LET step(has_any_normative, has_strong_normative, looks_protocol) ==
            IF looks_protocol /\ ~has_strong_normative
            THEN kept_sentences(sentences, idx + 1, kept)
            ELSE IF has_any_normative
            THEN kept \o SubSeq(sentences, idx, Len(sentences))
            ELSE kept_sentences(sentences, idx + 1,
                                Append(kept, sentences[idx]))
        classify(lower, has_any_normative) ==
            step(has_any_normative,
                 contains_any(lower, StrongNormativeMarkers),
                 \/ contains_any(lower, ProtocolMarkers)
                 \/ (ends_with(trim(lower), <<"?">>) /\ ~has_any_normative))
        of_lower(lower) ==
            classify(lower, contains_any(lower, AnyNormativeMarkers))
    IN  IF idx > Len(sentences) THEN kept
        ELSE of_lower(to_lowercase(sentences[idx]))

strip_protocol_prefix_sentences(text) ==
    LET of_sentences(sentences) ==
            IF sentences = <<>> THEN text
            ELSE trim(join(kept_sentences(sentences, 1, <<>>), <<" ">>))
    IN  of_sentences(split_sentences(text))

\* The characters trimmed after a greeting prefix (the code also trims the
\* em dash, which is outside the model's alphabet).
is_greeting_separator(c) == is_whitespace(c) \/ c \in {",", ".", "!", "-"}

\* No gate on the markers: the trimmed text is kept whatever it says.
strip_greeting_keeps_unmarked(text) == trim(text)

strip_greeting(text) ==
    LET finish(cleaned) ==
            IF /\ ends_with(trim_end(cleaned), <<"?">>)
               /\ ~contains_any(to_lowercase(cleaned), QuestionNormativeMarkers)
            THEN <<>>
            ELSE trim(cleaned)
        without_prefix(cleaned, hits) ==
            IF hits = {} THEN cleaned
            ELSE trim_start_matches(
                     Slice(cleaned, Len(GreetingPrefixes[Min(hits)]),
                           Len(cleaned)),
                     is_greeting_separator)
        prefixes_of(lowered) ==
            {p \in 1..Len(GreetingPrefixes) :
                starts_with(lowered, GreetingPrefixes[p])}
        strip_prefix(cleaned) ==
            finish(without_prefix(cleaned, prefixes_of(to_lowercase(cleaned))))
        of_trimmed(cleaned) ==
            IF ~contains_any(to_lowercase(cleaned), GreetingNormativeMarkers)
            THEN <<>>
            ELSE strip_prefix(strip_protocol_prefix_sentences(
                                  strip_protocol_suffix(cleaned)))
    IN  of_trimmed(trim(text))

Statement(raw_text, modality, conditions) ==
    [id |-> "final_response", subject |-> "agent",
     predicate |-> "participation", raw_text |-> raw_text,
     modality |-> modality, conditions |-> conditions]

\* StatementExtractor::extract: at most one statement.
extract(text) ==
    LET of_cleaned(cleaned) ==
            IF trim(cleaned) = <<>> THEN <<>>
            ELSE <<Statement(cleaned, None, <<>>)>>
    IN  IF trim(text) = <<>> THEN <<>> ELSE of_cleaned(strip_greeting(text))

(***************************************************************************)
(* normative/modality_detector.rs                                          *)
(***************************************************************************)
RefusalMarkers ==
    <<
      <<"c", "a", "n", "n", "o", "t", " ", "d", "e", "t", "e", "r", "m", "i", "n", "e">>,
      <<"c", "a", "n", "n", "o", "t", " ", "d", "e", "c", "i", "d", "e">>,
      <<"c", "a", "n", "n", "o", "t", " ", "c", "h", "o", "o", "s", "e">>,
      <<"n", "e", "e", "d", " ", "m", "o", "r", "e">>,
      <<"r", "e", "q", "u", "i", "r", "e", " ", "m", "o", "r", "e">>,
      <<"i", "n", "s", "u", "f", "f", "i", "c", "i", "e", "n", "t">>,
      <<"p", "l", "e", "a", "s", "e", " ", "p", "r", "o", "v", "i", "d", "e">>,
      <<"p", "l", "e", "a", "s", "e", " ", "c", "l", "a", "r", "i", "f", "y">>,
      <<"i", " ", "d", "o", "n", "'", "t", " ", "k", "n", "o", "w">>,
      <<"i", " ", "d", "o", " ", "n", "o", "t", " ", "k", "n", "o", "w">>,
      <<"h", "a", "r", "d", " ", "t", "o", " ", "s", "a", "y">>,
      <<"h", "a", "r", "d", " ", "t", "o", " ", "d", "e", "t", "e", "r", "m", "i", "n", "e">>,
      <<"i", " ", "w", "o", "u", "l", "d", " ", "n", "o", "t">>,
      <<"i", " ", "w", "o", "n", "'", "t">>
    >>

ConditionalMarkers ==
    <<
      <<"i", "f", " ">>,
      <<"u", "n", "l", "e", "s", "s", " ">>,
      <<"a", "s", "s", "u", "m", "i", "n", "g", " ">>,
      <<"g", "i", "v", "e", "n", " ", "t", "h", "a", "t">>,
      <<"p", "r", "o", "v", "i", "d", "e", "d", " ">>,
      <<"d", "e", "p", "e", "n", "d", "s", " ", "o", "n">>,
      <<" ", "m", "i", "g", "h", "t", " ">>,
      <<" ", "c", "o", "u", "l", "d", " ">>
    >>

GoalConditionalPrefixes ==
    <<
      <<"i", "f", " ", "y", "o", "u", "r", " ", "g", "o", "a", "l", " ", "i", "s">>,
      <<"i", "f", " ", "y", "o", "u", " ", "w", "a", "n", "t">>,
      <<"a", "s", "s", "u", "m", "i", "n", "g", " ", "y", "o", "u", " ", "w", "a", "n", "t">>,
      <<"i", "f", " ", "y", "o", "u", "'", "r", "e", " ", "o", "p", "t", "i", "m", "i", "z", "i", "n", "g">>,
      <<"i", "f", " ", "y", "o", "u", " ", "a", "r", "e", " ", "o", "p", "t", "i", "m", "i", "z", "i", "n", "g">>,
      <<"i", "f", " ", "y", "o", "u", "'", "r", "e", " ", "a", "i", "m", "i", "n", "g">>
    >>

PersonalizationMarkers ==
    <<
      <<"f", "o", "r", " ", "y", "o", "u">>,
      <<"g", "i", "v", "e", "n", " ", "y", "o", "u", "r">>,
      <<"b", "a", "s", "e", "d", " ", "o", "n", " ", "y", "o", "u", "r">>,
      <<"a", "c", "c", "o", "r", "d", "i", "n", "g", " ", "t", "o", " ", "y", "o", "u", "r">>,
      <<"w", "i", "t", "h", " ", "y", "o", "u", "r", " ", "p", "r", "e", "f", "e", "r", "e", "n", "c", "e", "s">>,
      <<"w", "i", "t", "h", " ", "y", "o", "u", "r", " ", "c", "o", "n", "s", "t", "r", "a", "i", "n", "t", "s">>
    >>

DescriptiveMarkers ==
    <<
      <<"b", "l", "o", "c", "k", "s">>,
      <<"i", "s", " ", "b", "l", "o", "c", "k", "e", "d", " ", "b", "y">>,
      <<"d", "e", "p", "e", "n", "d", "s", " ", "o", "n">>,
      <<"h", "a", "s", " ", "s", "t", "a", "t", "u", "s">>,
      <<"d", "u", "e", " ", "d", "a", "t", "e", " ", "i", "s">>,
      <<"i", "s", " ", "b", "l", "o", "c", "k", "e", "d">>
    >>

NormativeMarkers ==
    <<
      <<"s", "h", "o", "u", "l", "d">>,
      <<"m", "u", "s", "t">>,
      <<"n", "e", "e", "d", " ", "t", "o">>,
      <<"n", "e", "e", "d", "s", " ", "t", "o">>,
      <<"r", "e", "c", "o", "m", "m", "e", "n", "d">>,
      <<"s", "u", "g", "g", "e", "s", "t">>,
      <<"a", "d", "v", "i", "s", "e">>
    >>

RecommendationMarkers ==
    <<
      <<" ", "i", "s", " ", "b", "e", "t", "t", "e", "r">>,
      <<" ", "a", "r", "e", " ", "b", "e", "t", "t", "e", "r">>,
      <<"s", "h", "o", "u", "l", "d", " ", "b", "e", " ", "p", "r", "i", "o", "r", "i", "t", "i", "z">>,
      <<"r", "e", "c", "o", "m", "m", "e", "n", "d", " ">>,
      <<"s", "u", "g", "g", "e", "s", "t", " ", "y", "o", "u">>,
      <<"b", "e", "s", "t", " ", "c", "h", "o", "i", "c", "e">>,
      <<"b", "e", "s", "t", " ", "o", "p", "t", "i", "o", "n">>,
      <<"p", "r", "i", "o", "r", "i", "t", "i", "z", "e", " ">>,
      <<" ", "f", "i", "r", "s", "t">>
    >>

is_refusal(text) == contains_any(text, RefusalMarkers)
is_conditional(text) == contains_any(text, ConditionalMarkers)
is_goal_conditional(text) ==
    \E k \in 1..Len(GoalConditionalPrefixes) :
        starts_with(text, GoalConditionalPrefixes[k])
is_personalization_conditional(text) == contains_any(text, PersonalizationMarkers)
is_descriptive(text) == contains_any(text, DescriptiveMarkers)
is_normative(text) == contains_any(text, NormativeMarkers)
has_recommendation(text) == contains_any(text, RecommendationMarkers)

\* The text up to the first blank line; else up to and including the first
\* full stop that a space follows; else the first line; else the first 500
\* characters; trimmed in every case.
extract_core_assertion(text) ==
    LET pick(para, stop, line) ==
            IF IsSome(para) THEN trim(Slice(text, 0, Unwrap(para)))
            ELSE IF IsSome(stop) THEN trim(Slice(text, 0, Unwrap(stop) + 1))
            ELSE IF IsSome(line) THEN trim(Slice(text, 0, Unwrap(line)))
            ELSE trim(Slice(text, 0, Min({500, Len(text)})))
    IN  pick(find(text, <<"\n", "\n">>), find(text, <<".", " ">>),
             find(text, <<"\n">>))

\* The whole lower-cased text is classified, not its core assertion.
detect_whole_text(text) ==
    LET classify(core) ==
            IF is_refusal(core) THEN "Refusal"
            ELSE IF is_goal_conditional(core) THEN "Conditional"
            ELSE IF is_personalization_conditional(core) THEN "Conditional"
            ELSE IF has_recommendation(core) THEN "Assertive"
            ELSE IF is_conditional(core) THEN "Conditional"
            ELSE IF is_descriptive(core) /\ ~is_normative(core)
            THEN "Descriptive"
            ELSE "Assertive"
    IN  classify(to_lowercase(text))

\* detect with the recommendation rule tried before the goal-conditional and
\* personalization rules.
detect_recommendation_first(text) ==
    LET classify(core) ==
            IF is_refusal(core) THEN "Refusal"
            ELSE IF has_recommendation(core) THEN "Assertive"
            ELSE IF is_goal_conditional(core) THEN "Conditional"
            ELSE IF is_personalization_conditional(core) THEN "Conditional"
            ELSE IF is_conditional(core) THEN "Conditional"
            ELSE IF is_descriptive(core) /\ ~is_normative(core)
            THEN "Descriptive"
            ELSE "Assertive"
    IN  classify(extract_core_assertion(to_lowercase(text)))

detect(text) ==
    LET classify(core) ==
            IF is_refusal(core) THEN "Refusal"
            ELSE IF is_goal_conditional(core) THEN "Conditional"
            ELSE IF is_personalization_conditional(core) THEN "Conditional"
            ELSE IF has_recommendation(core) THEN "Assertive"
            ELSE IF is_conditional(core) THEN "Conditional"
            ELSE IF is_descriptive(core) /\ ~is_normative(core)
            THEN "Descriptive"
            ELSE "Assertive"
    IN  classify(extract_core_assertion(to_lowercase(text)))

\* Option<String>: the trimmed clause after the first occurrence of keyword,
\* up to the first ',', '.' or ';'.
extract_after_keyword(text, keyword) ==
    LET some(clause) == IF clause = <<>> THEN None ELSE Some(clause)
        upto(tail, stops) ==
            some(trim(Slice(tail, 0,
                            IF stops = {} THEN Len(tail) ELSE Min(stops))))
        of_tail(tail) ==
            upto(tail, {i \in 0..(Len(tail) - 1) :
                           tail[i + 1] \in {",", ".", ";"}})
        after(at) ==
            IF IsNone(at) THEN None
            ELSE of_tail(Slice(text, Unwrap(at) + Len(keyword), Len(text)))
    IN  after(find(text, keyword))

\* Option<String> mapped through a prefix: an empty or one-element sequence.
with_prefix(prefix, o) == IF IsSome(o) THEN <<prefix \o Unwrap(o)>> ELSE <<>>

\* extract_conditions without the fallback to "unspecified".
extract_conditions_no_fallback(text) ==
    LET of_lower(lower) ==
            extract_after_keyword(lower, <<"i", "f", " ">>)
            \o with_prefix(<<"N", "O", "T", " ">>, extract_after_keyword(lower, <<"u", "n", "l", "e", "s", "s", " ">>))
            \o extract_after_keyword(lower, <<"a", "s", "s", "u", "m", "i", "n", "g", " ">>)
            \o extract_after_keyword(lower, <<"g", "i", "v", "e", "n", " ", "t", "h", "a", "t", " ">>)
            \o with_prefix(<<"g", "i", "v", "e", "n", " ", "y", "o", "u", "r", " ">>, extract_after_keyword(lower, <<"g", "i", "v", "e", "n", " ", "y", "o", "u", "r", " ">>))
            \o with_prefix(<<"b", "a", "s", "e", "d", " ", "o", "n", " ", "y", "o", "u", "r", " ">>, extract_after_keyword(lower, <<"b", "a", "s", "e", "d", " ", "o", "n", " ", "y", "o", "u", "r", " ">>))
            \o (IF contains(lower, <<"f", "o", "r", " ", "y", "o", "u">>) THEN <<<<"f", "o", "r", " ", "y", "o", "u">>>> ELSE <<>>)
    IN  of_lower(to_lowercase(text))

extract_conditions(text) ==
    LET or_unspecified(out) ==
            IF out = <<>> THEN <<<<"u", "n", "s", "p", "e", "c", "i", "f", "i", "e", "d">>>> ELSE out
        of_lower(lower) ==
            or_unspecified(
               extract_after_keyword(lower, <<"i", "f", " ">>)
               \o with_prefix(<<"N", "O", "T", " ">>,
                      extract_after_keyword(lower, <<"u", "n", "l", "e", "s", "s", " ">>))
               \o extract_after_keyword(lower, <<"a", "s", "s", "u", "m", "i", "n", "g", " ">>)
               \o extract_after_keyword(lower, <<"g", "i", "v", "e", "n", " ", "t", "h", "a", "t", " ">>)
               \o with_prefix(<<"g", "i", "v", "e", "n", " ", "y", "o", "u", "r", " ">>,
                      extract_after_keyword(lower, <<"g", "i", "v", "e", "n", " ", "y", "o", "u", "r", " ">>))
               \o with_prefix(<<"b", "a", "s", "e", "d", " ", "o", "n", " ", "y", "o", "u", "r", " ">>,
                      extract_after_keyword(lower, <<"b", "a", "s", "e", "d", " ", "o", "n", " ", "y", "o", "u", "r", " ">>))
               \o (IF contains(lower, <<"f", "o", "r", " ", "y", "o", "u">>)
                   THEN <<<<"f", "o", "r", " ", "y", "o", "u">>>> ELSE <<>>))
    IN  of_lower(to_lowercase(text))

\* detect_with_conditions, returning the statement it mutates.
detect_with_conditions(st) ==
    LET with(modality) ==
            [st EXCEPT !.modality = Some(modality),
                       !.conditions = IF modality = "Conditional"
                                      THEN extract_conditions(st.raw_text)
                                      ELSE @]
    IN  with(detect(st.raw_text))

(***************************************************************************)
(* normative/ground_matcher.rs                                             *)
(***************************************************************************)
is_relevant(st, node) ==
    IF st.modality = Some("Descriptive") THEN node.scope = "Factual"
    ELSE IF st.modality \in {Some("Assertive"), Some("Conditional")}
    THEN node.scope \in {"Factual", "Contextual"}
    ELSE FALSE

\* GroundSetMatcher::match_nodes
match_nodes(st, knowledge_nodes) ==
    SelectSeq(knowledge_nodes, LAMBDA node : is_relevant(st, node))

(***************************************************************************)
(* evaluator.rs: aggregation                                               *)
(***************************************************************************)
\* filter_map over the results' violated_axiom, in order.
RECURSIVE Violations(_)
Violations(rs) ==
    IF rs = <<>> THEN <<>>
    ELSE Head(rs).violated_axiom \o Violations(Tail(rs))

AnyStatus(rs, s) == iter_any(rs, LAMBDA r : r.status = s)

ValidationResult(st, lic, retry, hint, axioms, results, expl, n_ok) ==
    [status |-> st, licensed |-> lic, can_retry |-> retry,
     feedback_hint |-> hint, violated_axioms |-> axioms,
     statement_results |-> results, explanation |-> expl,
     num_statements |-> Len(results), num_acceptable |-> n_ok,
     grounds_accepted |-> 0, grounds_cited |-> 0]

NumAcceptable(rs) ==
    Cardinality({i \in 1..Len(rs) :
                    rs[i].status \in {"Acceptable", "ConditionallyAcceptable"}})

\* The Unsupported rule tested before the Underdetermined rule.
aggregate_unsupported_first(rs, statement_results) ==
    LET violations == Violations(rs)
        R(status, licensed, can_retry, hint, explanation) ==
            ValidationResult(status, licensed, can_retry, hint, violations,
                             statement_results, explanation, NumAcceptable(rs))
    IN  IF AnyStatus(rs, "ViolatesNorm")
        THEN R("ViolatesNorm", FALSE, TRUE,
               Some(<<"Your response violates normative axioms", violations>>),
               "Violated axioms: {violations:?}")
        ELSE IF AnyStatus(rs, "IllFormed")
        THEN R("IllFormed", FALSE, TRUE,
               Some(<<"Your response is structurally ill-formed">>),
               "Structurally ill-formed statements detected")
        ELSE IF AnyStatus(rs, "Unsupported")
        THEN R("Unsupported", TRUE, TRUE,
               Some(<<"Your statements lack required grounding">>),
               "Statements lack required grounding (A4)")
        ELSE IF AnyStatus(rs, "Underdetermined")
        THEN R("Underdetermined", FALSE, FALSE, None,
               "Validator has no jurisdiction to judge")
        ELSE IF AnyStatus(rs, "ConditionallyAcceptable")
        THEN R("ConditionallyAcceptable", TRUE, FALSE, None,
               "Mix of conditional and acceptable statements")
        ELSE R("Acceptable", TRUE, FALSE, None,
               "All statements are normatively acceptable")

\* AdmissibilityEvaluator::aggregate.
aggregate(rs, statement_results) ==
    LET violations == Violations(rs)
        R(status, licensed, can_retry, hint, explanation) ==
            ValidationResult(status, licensed, can_retry, hint, violations,
                             statement_results, explanation, NumAcceptable(rs))
    IN  IF AnyStatus(rs, "ViolatesNorm")
        THEN R("ViolatesNorm", FALSE, TRUE,
               Some(<<"Your response violates normative axioms", violations>>),
               "Violated axioms: {violations:?}")
        ELSE IF AnyStatus(rs, "IllFormed")
        THEN R("IllFormed", FALSE, TRUE,
               Some(<<"Your response is structurally ill-formed">>),
               "Structurally ill-formed statements detected")
        ELSE IF AnyStatus(rs, "Underdetermined")
        THEN R("Underdetermined", FALSE, FALSE, None,
               "Validator has no jurisdiction to judge")
        ELSE IF AnyStatus(rs, "Unsupported")
        THEN R("Unsupported", TRUE, TRUE,
               Some(<<"Your statements lack required grounding">>),
               "Statements lack required grounding (A4)")
        ELSE IF rs # <<>>
                /\ iter_all(rs, LAMBDA r : r.status = "ConditionallyAcceptable")
        THEN R("ConditionallyAcceptable", TRUE, FALSE, None,
               "All statements are conditionally acceptable")
        ELSE IF AnyStatus(rs, "ConditionallyAcceptable")
        THEN R("ConditionallyAcceptable", TRUE, FALSE, None,
               "Mix of conditional and acceptable statements")
        ELSE R("Acceptable", TRUE, FALSE, None,
               "All statements are normatively acceptable")

(***************************************************************************)
(* evaluator.rs: the pipeline from the input to the judgment               *)
(***************************************************************************)
\* Result<T, EvaluateError>.
Ok(v) == [ok |-> TRUE, value |-> v]
Err(e) == [ok |-> FALSE, error |-> e]

\* The tool call's arguments and custom fields are never read on the way to
\* the judgment and are left out.
ToolCall(id, kind, function_name) ==
    [id |-> id, kind |-> kind, function_name |-> function_name]

ConversationMessage(role, content, tool_call_id, tool_calls, function_name) ==
    [role |-> role, content |-> content, tool_call_id |-> tool_call_id,
     tool_calls |-> tool_calls, function_name |-> function_name]

EvaluateInput(agent_output, conversation, grounds) ==
    [agent_output |-> agent_output, conversation |-> conversation,
     grounds |-> grounds]

\* obj.get(key).and_then(JsonValue::as_str)
get_str(map, key) ==
    LET of_value(v) == IF IsSome(v) THEN as_str(Unwrap(v)) ELSE None
    IN  of_value(btree_get(map, key))

\* The strings of the parts of one kind ("text" or "refusal"), in order.
content_parts(parts, kind) ==
    Flatten([k \in 1..Len(parts) |->
        IF /\ parts[k].kind = "Object"
           /\ unwrap_or_default(get_str(parts[k].map, <<"t", "y", "p", "e">>)) = kind
        THEN get_str(parts[k].map, kind)
        ELSE None])

\* Text and refusal parts together: the refusal is returned.
extract_text_content_refusal_wins(content) ==
    IF IsNone(content) THEN Ok(<<>>)
    ELSE IF Unwrap(content).kind = "String" THEN Ok(Unwrap(content).str)
    ELSE IF Unwrap(content).kind = "Array"
    THEN Ok(trim(join(
             IF content_parts(Unwrap(content).items, <<"r", "e", "f", "u", "s", "a", "l">>) # <<>>
             THEN content_parts(Unwrap(content).items, <<"r", "e", "f", "u", "s", "a", "l">>)
             ELSE content_parts(Unwrap(content).items, <<"t", "e", "x", "t">>), <<>>)))
    ELSE Err("LastAssistantContentNotString")

extract_text_content(content) ==
    LET of_parts(refusal_parts, text_parts) ==
            IF refusal_parts # <<>> /\ text_parts # <<>>
            THEN Err("InvalidMessage")
            ELSE IF refusal_parts # <<>>
            THEN Ok(trim(join(refusal_parts, <<>>)))
            ELSE Ok(trim(join(text_parts, <<>>)))
    IN  IF IsNone(content) THEN Ok(<<>>)
        ELSE IF Unwrap(content).kind = "String" THEN Ok(Unwrap(content).str)
        ELSE IF Unwrap(content).kind = "Array"
        THEN of_parts(content_parts(Unwrap(content).items, <<"r", "e", "f", "u", "s", "a", "l">>),
                      content_parts(Unwrap(content).items, <<"t", "e", "x", "t">>))
        ELSE Err("LastAssistantContentNotString")

Unknown == <<"u", "n", "k", "n", "o", "w", "n">>

\* tool_call_by_id.get(id): the name of the last "function" tool call with
\* that id among the assistant messages (a later insert replaces an earlier).
tool_call_name(trajectory, tool_call_id) ==
    LET name_of(call) ==
            IF IsSome(call.function_name) THEN Unwrap(call.function_name)
            ELSE Unknown
        last(calls, hits) ==
            IF hits = {} THEN Unknown ELSE name_of(calls[Max(hits)])
        of_calls(calls) ==
            last(calls, {k \in 1..Len(calls) : calls[k].id = tool_call_id})
        of_assistant(assistant) ==
            of_calls(Flatten([k \in 1..Len(assistant) |->
                         SelectSeq(assistant[k].tool_calls,
                                   LAMBDA c : c.kind = "function")]))
    IN  of_assistant(SelectSeq(trajectory, LAMBDA m : m.role = "assistant"))

\* Result<Vec<ToolResultSpeechAct>, _>: the first content error in message
\* order is returned.
extract_tool_results(trajectory) ==
    LET is_result(m) ==
            m.role = "tool" \/ (m.role = "function" /\ IsSome(m.function_name))
        content(m) == extract_text_content(m.content)
        of_tool(m, tool_call_id) ==
            ToolResultSpeechAct(tool_call_name(trajectory, tool_call_id),
                                Some(tool_call_id), content(m).value)
        result(m) ==
            IF m.role = "tool"
            THEN of_tool(m, unwrap_or_default(m.tool_call_id))
            ELSE ToolResultSpeechAct(Unwrap(m.function_name), None,
                                     content(m).value)
        collect(messages, failed) ==
            IF failed # {} THEN content(messages[Min(failed)])
            ELSE Ok([k \in 1..Len(messages) |-> result(messages[k])])
        of_messages(messages) ==
            collect(messages,
                    {k \in 1..Len(messages) : ~content(messages[k]).ok})
    IN  of_messages(SelectSeq(trajectory, is_result))

to_speech_act(assistant_message) ==
    extract_text_content(assistant_message.content)

StatementValidationResult(st, result, lic, gs) ==
    [statement |-> st, status |-> result.status, license |-> lic,
     ground_set |-> gs, violated_axiom |-> result.violated_axiom,
     explanation |-> result.explanation]

\* The body of the per-statement loop of evaluate_core.
evaluate_statement(st0, knowledge_nodes, link_opt) ==
    LET record(st, gs, lic, result) ==
            [axiom |-> result,
             statement |-> StatementValidationResult(st, result, lic, gs)]
        checked(st, gs, lic) == record(st, gs, lic, check(st, lic, gs))
        licensed(st, gs) ==
            checked(st, gs,
                    IF st.modality = Some("Descriptive") THEN {}
                    ELSE derive(gs, link_opt))
        detected(st) == licensed(st, match_nodes(st, knowledge_nodes))
    IN  detected(detect_with_conditions(st0))

\* evaluate_core with a blank text taken for the empty text.
evaluate_core_blank_is_empty(agent_output, knowledge_nodes, link_opt) ==
    LET of_evaluated(evaluated) ==
            aggregate([k \in 1..Len(evaluated) |-> evaluated[k].axiom],
                      [k \in 1..Len(evaluated) |-> evaluated[k].statement])
        of_statements(statements) ==
            IF statements = <<>>
            THEN ValidationResult("NoNormativeContent", FALSE, FALSE, None,
                     <<>>, <<>>,
                     "Protocol-only output (greetings/offers) - no normative claims to evaluate",
                     0)
            ELSE of_evaluated([k \in 1..Len(statements) |->
                     evaluate_statement(statements[k], knowledge_nodes,
                                        link_opt)])
    IN  IF trim(agent_output) = <<>>
        THEN ValidationResult("Underdetermined", FALSE, FALSE, None, <<>>, <<>>,
                              "No content to validate", 0)
        ELSE of_statements(extract(agent_output))

evaluate_core(agent_output, knowledge_nodes, link_opt) ==
    LET of_evaluated(evaluated) ==
            aggregate([k \in 1..Len(evaluated) |-> evaluated[k].axiom],
                      [k \in 1..Len(evaluated) |-> evaluated[k].statement])
        of_statements(statements) ==
            IF statements = <<>>
            THEN ValidationResult("NoNormativeContent", FALSE, FALSE, None,
                     <<>>, <<>>,
                     "Protocol-only output (greetings/offers) - no normative claims to evaluate",
                     0)
            ELSE of_evaluated([k \in 1..Len(statements) |->
                     evaluate_statement(statements[k], knowledge_nodes,
                                        link_opt)])
    IN  IF agent_output = <<>>
        THEN ValidationResult("Underdetermined", FALSE, FALSE, None, <<>>, <<>>,
                              "No content to validate", 0)
        ELSE of_statements(extract(agent_output))

map_status(status) == IF status = "WellFormed" THEN "Underdetermined" ELSE status

ModalityStr ==
    [m \in Modality |->
        CASE m = "Assertive" -> "assertive"
          [] m = "Conditional" -> "conditional"
          [] m = "Refusal" -> "refusal"
          [] m = "Descriptive" -> "descriptive"]

GroundRef(k) ==
    [id |-> k.id,
     scope |-> IF k.scope = "Factual" THEN "factual" ELSE "contextual",
     source |-> "observed", status |-> "confirmed",
     confidence |-> k.confidence, strength |-> k.strength,
     semantic_id |-> k.semantic_id]

StatementEvaluation(stmt) ==
    [statement_id |-> stmt.statement.id,
     statement |-> stmt.statement.raw_text,
     modality |-> IF IsSome(stmt.statement.modality)
                  THEN ModalityStr[Unwrap(stmt.statement.modality)]
                  ELSE "unknown",
     license |-> {ModalityStr[m] : m \in stmt.license},
     status |-> map_status(stmt.status),
     violated_axiom |-> stmt.violated_axiom,
     explanation |-> stmt.explanation,
     grounding_trace |-> [k \in 1..Len(stmt.ground_set) |->
                             GroundRef(stmt.ground_set[k])],
     subject |-> Some(stmt.statement.subject),
     predicate |-> Some(stmt.statement.predicate)]

\* to_judgment collecting the violated axioms of ViolatesNorm statements only.
to_judgment_norm_violations_only(result) ==
    [status |-> map_status(result.status),
     licensed |-> result.licensed,
     can_retry |-> result.can_retry,
     statement_evaluations |->
         [k \in 1..Len(result.statement_results) |->
             StatementEvaluation(result.statement_results[k])],
     feedback_hint |-> result.feedback_hint,
     violated_axioms |->
         Flatten([k \in 1..Len(result.statement_results) |->
                     IF result.statement_results[k].status = "ViolatesNorm"
                     THEN result.statement_results[k].violated_axiom
                     ELSE None]),
     explanation |-> result.explanation,
     num_statements |-> result.num_statements,
     num_acceptable |-> result.num_acceptable,
     grounds_accepted |-> result.grounds_accepted,
     grounds_cited |-> result.grounds_cited]

\* AdmissibilityJudgment built by to_judgment.
to_judgment(result) ==
    [status |-> map_status(result.status),
     licensed |-> result.licensed,
     can_retry |-> result.can_retry,
     statement_evaluations |->
         [k \in 1..Len(result.statement_results) |->
             StatementEvaluation(result.statement_results[k])],
     feedback_hint |-> result.feedback_hint,
     violated_axioms |->
         Flatten([k \in 1..Len(result.statement_results) |->
                     result.statement_results[k].violated_axiom]),
     explanation |-> result.explanation,
     num_statements |-> result.num_statements,
     num_acceptable |-> result.num_acceptable,
     grounds_accepted |-> result.grounds_accepted,
     grounds_cited |-> result.grounds_cited]

(***************************************************************************)
(* models.rs: the judgment as a JSON value                                 *)
(***************************************************************************)
AdmissibilityStatus_as_str(status) ==
    CASE status = "Acceptable" -> "acceptable"
      [] status = "ConditionallyAcceptable" -> "conditionally_acceptable"
      [] status = "ViolatesNorm" -> "violates_norm"
      [] status = "Unsupported" -> "unsupported"
      [] status = "IllFormed" -> "ill_formed"
      [] status = "Underdetermined" -> "underdetermined"
      [] status = "NoNormativeContent" -> "no_normative_content"

\* usize as f64, exact below 2^53: the number by its decimal digits.
RECURSIVE f64_of_usize(_)
f64_of_usize(n) ==
    LET digit(d) == CHOOSE c \in Digits : ByteOf[c] = ByteOf["0"] + d
    IN  IF n < 10 THEN <<digit(n)>>
        ELSE f64_of_usize(n \div 10) \o <<digit(n % 10)>>

\* The iteration of a BTreeSet of modality names: in ascending order.
license_iter(license_set) ==
    SelectSeq(<<"assertive", "conditional", "descriptive", "refusal">>,
              LAMBDA m : m \in license_set)

\* A run of obj.insert(key, value) statements, in their order.
RECURSIVE insert_each(_, _)
insert_each(obj, entries) ==
    IF entries = <<>> THEN obj
    ELSE insert_each(btree_insert(obj, Head(entries)[1], Head(entries)[2]),
                     Tail(entries))

\* The confidence of a node is the whole number 1 in every node of the model
\* and is written like the counts.

ground_ref_to_json(value) ==
    JsonObject(insert_each(<<>>,
        <<<<<<"i", "d">>, JsonString(value.id)>>,
          <<<<"s", "c", "o", "p", "e">>, JsonString(value.scope)>>,
          <<<<"s", "o", "u", "r", "c", "e">>, JsonString(value.source)>>,
          <<<<"s", "t", "a", "t", "u", "s">>, JsonString(value.status)>>,
          <<<<"c", "o", "n", "f", "i", "d", "e", "n", "c", "e">>, JsonNumber(f64_of_usize(value.confidence))>>,
          <<<<"s", "t", "r", "e", "n", "g", "t", "h">>, JsonString(value.strength)>>,
          <<<<"s", "e", "m", "a", "n", "t", "i", "c", "_", "i", "d">>, IF IsSome(value.semantic_id)
            THEN JsonString(Unwrap(value.semantic_id)) ELSE JsonNull>>>>))

statement_eval_to_json(value) ==
    JsonObject(insert_each(<<>>,
        <<<<<<"s", "t", "a", "t", "e", "m", "e", "n", "t", "_", "i", "d">>, JsonString(value.statement_id)>>,
          <<<<"s", "t", "a", "t", "e", "m", "e", "n", "t">>, JsonString(value.statement)>>,
          <<<<"m", "o", "d", "a", "l", "i", "t", "y">>, JsonString(value.modality)>>,
          <<<<"l", "i", "c", "e", "n", "s", "e">>, JsonArray([k \in 1..Len(license_iter(value.license)) |->
                          JsonString(license_iter(value.license)[k])])>>,
          <<<<"s", "t", "a", "t", "u", "s">>, JsonString(AdmissibilityStatus_as_str(value.status))>>,
          <<<<"v", "i", "o", "l", "a", "t", "e", "d", "_", "a", "x", "i", "o", "m">>, IF IsSome(value.violated_axiom)
            THEN JsonString(Unwrap(value.violated_axiom)) ELSE JsonNull>>,
          <<<<"e", "x", "p", "l", "a", "n", "a", "t", "i", "o", "n">>, JsonString(value.explanation)>>,
          <<<<"g", "r", "o", "u", "n", "d", "i", "n", "g", "_", "t", "r", "a", "c", "e">>, JsonArray([k \in 1..Len(value.grounding_trace) |->
                          ground_ref_to_json(value.grounding_trace[k])])>>,
          <<<<"s", "u", "b", "j", "e", "c", "t">>, IF IsSome(value.subject)
            THEN JsonString(Unwrap(value.subject)) ELSE JsonNull>>,
          <<<<"p", "r", "e", "d", "i", "c", "a", "t", "e">>, IF IsSome(value.predicate)
            THEN JsonString(Unwrap(value.predicate)) ELSE JsonNull>>>>))

\* to_json_value without the feedback_hint entry of a judgment that has no
\* hint.
to_json_value_omits_absent(self) ==
    JsonObject(insert_each(<<>>,
        <<<<<<"s", "t", "a", "t", "u", "s">>, JsonString(AdmissibilityStatus_as_str(self.status))>>,
          <<<<"l", "i", "c", "e", "n", "s", "e", "d">>, JsonBool(self.licensed)>>,
          <<<<"c", "a", "n", "_", "r", "e", "t", "r", "y">>, JsonBool(self.can_retry)>>,
          <<<<"s", "t", "a", "t", "e", "m", "e", "n", "t", "_", "e", "v", "a", "l", "u", "a", "t", "i", "o", "n", "s">>, JsonArray([k \in 1..Len(self.statement_evaluations) |->
                          statement_eval_to_json(self.statement_evaluations[k])])>>>>
        \o (IF IsSome(self.feedback_hint)
            THEN <<<<<<"f", "e", "e", "d", "b", "a", "c", "k", "_", "h", "i", "n", "t">>, JsonString(Unwrap(self.feedback_hint))>>>>
            ELSE <<>>)
        \o <<<<<<"v", "i", "o", "l", "a", "t", "e", "d", "_", "a", "x", "i", "o", "m", "s">>, JsonArray([k \in 1..Len(self.violated_axioms) |->
                          JsonString(self.violated_axioms[k])])>>,
            <<<<"e", "x", "p", "l", "a", "n", "a", "t", "i", "o", "n">>, JsonString(self.explanation)>>,
            <<<<"n", "u", "m", "_", "s", "t", "a", "t", "e", "m", "e", "n", "t", "s">>, JsonNumber(f64_of_usize(self.num_statements))>>,
            <<<<"n", "u", "m", "_", "a", "c", "c", "e", "p", "t", "a", "b", "l", "e">>, JsonNumber(f64_of_usize(self.num_acceptable))>>,
            <<<<"g", "r", "o", "u", "n", "d", "s", "_", "a", "c", "c", "e", "p", "t", "e", "d">>, JsonNumber(f64_of_usize(self.grounds_accepted))>>,
            <<<<"g", "r", "o", "u", "n", "d", "s", "_", "c", "i", "t", "e", "d">>, JsonNumber(f64_of_usize(self.grounds_cited))>>>>))

to_json_value(self) ==
    JsonObject(insert_each(<<>>,
        <<<<<<"s", "t", "a", "t", "u", "s">>, JsonString(AdmissibilityStatus_as_str(self.status))>>,
          <<<<"l", "i", "c", "e", "n", "s", "e", "d">>, JsonBool(self.licensed)>>,
          <<<<"c", "a", "n", "_", "r", "e", "t", "r", "y">>, JsonBool(self.can_retry)>>,
          <<<<"s", "t", "a", "t", "e", "m", "e", "n", "t", "_", "e", "v", "a", "l", "u", "a", "t", "i", "o", "n", "s">>, JsonArray([k \in 1..Len(self.statement_evaluations) |->
                          statement_eval_to_json(self.statement_evaluations[k])])>>,
          <<<<"f", "e", "e", "d", "b", "a", "c", "k", "_", "h", "i", "n", "t">>, IF IsSome(self.feedback_hint)
            THEN JsonString(Unwrap(self.feedback_hint)) ELSE JsonNull>>,
          <<<<"v", "i", "o", "l", "a", "t", "e", "d", "_", "a", "x", "i", "o", "m", "s">>, JsonArray([k \in 1..Len(self.violated_axioms) |->
                          JsonString(self.violated_axioms[k])])>>,
          <<<<"e", "x", "p", "l", "a", "n", "a", "t", "i", "o", "n">>, JsonString(self.explanation)>>,
          <<<<"n", "u", "m", "_", "s", "t", "a", "t", "e", "m", "e", "n", "t", "s">>, JsonNumber(f64_of_usize(self.num_statements))>>,
          <<<<"n", "u", "m", "_", "a", "c", "c", "e", "p", "t", "a", "b", "l", "e">>, JsonNumber(f64_of_usize(self.num_acceptable))>>,
          <<<<"g", "r", "o", "u", "n", "d", "s", "_", "a", "c", "c", "e", "p", "t", "e", "d">>, JsonNumber(f64_of_usize(self.grounds_accepted))>>,
          <<<<"g", "r", "o", "u", "n", "d", "s", "_", "c", "i", "t", "e", "d">>, JsonNumber(f64_of_usize(self.grounds_cited))>>>>))

(***************************************************************************)
(* Input domains of the component-level specifications.                    *)
(***************************************************************************)
Id(n) == <<"n", n>>
UnitIds == {Id("1"), Id("2")}

\* Nodes of every scope and strength; a semantic id may equal another
\* node's id, so that resolution by id and by semantic id can disagree.
UnitNodes ==
    {KnowledgeNode(id, sc, st, sem) :
        id \in UnitIds, sc \in Scope, st \in {"strong", "weak"},
        sem \in {None, Some(Id("2"))}}

UnitGroundSets == SeqUpTo(UnitNodes, MaxNodes)

UnitProvenance == Provenance("UpstreamPipeline", "Observation", None, None)

UnitLinks ==
    {StatementGroundLink("final_response", g, r, UnitProvenance) :
        g \in UnitIds, r \in LinkRole}

UnitLinkSets == {None} \cup {Some(ls) : ls \in SeqUpTo(UnitLinks, MaxLinks)}

UnitStatements ==
    {Statement(<<"t">>, m, c) :
        m \in {None} \cup {Some(x) : x \in Modality},
        c \in {<<>>, <<"unspecified">>}}

\* What check can return, and the statuses only aggregate knows.
UnitResults ==
    {AxiomCheckResult(s, None, "") : s \in EvaluationStatus}
    \cup {AxiomCheckResult("ViolatesNorm", Some("A5"), ""),
          AxiomCheckResult("Unsupported", Some("A4"), ""),
          AxiomCheckResult("Unsupported", Some("A7"), "")}

StatementResultOf(r) ==
    [statement |-> Statement(<<"t">>, None, <<>>), status |-> r.status,
     license |-> {}, ground_set |-> <<>>,
     violated_axiom |-> r.violated_axiom, explanation |-> r.explanation]

StatementResultsOf(rs) == [i \in 1..Len(rs) |-> StatementResultOf(rs[i])]

NoStatement == Statement(<<>>, None, <<>>)

\* No call of evaluate is under way.
PipelineIdle ==
    /\ ev_input = None
    /\ pc = "done"
    /\ outcome = None
    /\ em_agent_message = None
    /\ em_trajectory = <<>>
    /\ em_tool_results = <<>>
    /\ em_knowledge_nodes = <<>>
    /\ em_tool_call_refs = <<>>
    /\ em_text = <<>>
    /\ em_combined_grounds = <<>>

CallIdle ==
    /\ call_args = <<>>
    /\ call_result = None
    /\ frame = None

\* No statement under check, no derivation, no aggregation.
UnitIdle ==
    /\ statement = NoStatement
    /\ license = {}
    /\ ground_set = <<>>
    /\ check_result = None
    /\ links = None
    /\ derived = None
    /\ axiom_results = <<>>
    /\ validation_result = None

(***************************************************************************)
(* AxiomChecker::check on every statement, license and ground set.         *)
(***************************************************************************)
InitCheck ==
    /\ statement \in UnitStatements
    /\ license \in SUBSET Modality
    /\ ground_set \in UnitGroundSets
    /\ check_result = None
    /\ links = None
    /\ derived = None
    /\ axiom_results = <<>>
    /\ validation_result = None
    /\ PipelineIdle
    /\ CallIdle

Check ==
    /\ check_result = None
    /\ check_result' = Some(check(statement, license, ground_set))
    /\ UNCHANGED <<statement, license, ground_set, links, derived,
                   axiom_results, validation_result,
                   PipelineVars, CallVars>>

SpecCheck == InitCheck /\ [][Check]_vars

(***************************************************************************)
(* LicenseDeriver::derive on every ground set and optional link set.       *)
(***************************************************************************)
InitDerive ==
    /\ statement = NoStatement
    /\ license = {}
    /\ ground_set \in UnitGroundSets
    /\ check_result = None
    /\ links \in UnitLinkSets
    /\ derived = None
    /\ axiom_results = <<>>
    /\ validation_result = None
    /\ PipelineIdle
    /\ CallIdle

Derive ==
    /\ derived = None
    /\ derived' = Some(derive(ground_set, links))
    /\ UNCHANGED <<statement, license, ground_set, check_result, links,
                   axiom_results, validation_result,
                   PipelineVars, CallVars>>

SpecDerive == InitDerive /\ [][Derive]_vars

(***************************************************************************)
(* AdmissibilityEvaluator::aggregate on every list of results.             *)
(***************************************************************************)
InitAggregate ==
    /\ statement = NoStatement
    /\ license = {}
    /\ ground_set = <<>>
    /\ check_result = None
    /\ links = None
    /\ derived = None
    /\ axiom_results \in SeqUpTo(UnitResults, MaxResults)
    /\ validation_result = None
    /\ PipelineIdle
    /\ CallIdle

Aggregate ==
    /\ validation_result = None
    /\ validation_result' =
           Some(aggregate(axiom_results, StatementResultsOf(axiom_results)))
    /\ UNCHANGED <<statement, license, ground_set, check_result, links,
                   derived, axiom_results,
                   PipelineVars, CallVars>>

SpecAggregate == InitAggregate /\ [][Aggregate]_vars

(***************************************************************************)
(* evaluate: the steps of one call, and the inputs it is called with.      *)
(***************************************************************************)
\* Lines 50-86 of evaluate: the error, or <<agent_message, trajectory>>.
\* The agent output is compared with the last message before its role is
\* looked at.
validate_input_mismatch_first(inp) ==
    LET synthetic(msg) == Ok(<<msg, <<msg>>>>)
        compare(conversation, last, actual) ==
            IF IsSome(inp.agent_output) /\ ~actual.ok THEN actual
            ELSE IF /\ IsSome(inp.agent_output)
                    /\ actual.value # Unwrap(inp.agent_output)
            THEN Err("AgentOutputMismatch")
            ELSE IF last.role # "assistant"
            THEN Err("LastMessageNotAssistant")
            ELSE Ok(<<last, conversation>>)
        of_last(conversation, last) ==
            compare(conversation, last, extract_text_content(last.content))
        of_conversation(conversation) ==
            IF conversation = <<>> THEN Err("InvalidConversation")
            ELSE of_last(conversation, conversation[Len(conversation)])
    IN  IF IsNone(inp.agent_output) /\ IsNone(inp.conversation)
        THEN Err("MissingInput")
        ELSE IF IsSome(inp.conversation)
        THEN of_conversation(Unwrap(inp.conversation))
        ELSE synthetic(ConversationMessage("assistant",
                 Some(JsonString(unwrap_or_default(inp.agent_output))),
                 None, <<>>, None))

validate_input(inp) ==
    LET synthetic(msg) == Ok(<<msg, <<msg>>>>)
        compare(conversation, last, actual) ==
            IF last.role # "assistant" THEN Err("LastMessageNotAssistant")
            ELSE IF IsSome(inp.agent_output) /\ ~actual.ok THEN actual
            ELSE IF /\ IsSome(inp.agent_output)
                    /\ actual.value # Unwrap(inp.agent_output)
            THEN Err("AgentOutputMismatch")
            ELSE Ok(<<last, conversation>>)
        of_last(conversation, last) ==
            compare(conversation, last, extract_text_content(last.content))
        of_conversation(conversation) ==
            IF conversation = <<>> THEN Err("InvalidConversation")
            ELSE of_last(conversation, conversation[Len(conversation)])
    IN  IF IsNone(inp.agent_output) /\ IsNone(inp.conversation)
        THEN Err("MissingInput")
        ELSE IF IsSome(inp.conversation)
        THEN of_conversation(Unwrap(inp.conversation))
        ELSE synthetic(ConversationMessage("assistant",
                 Some(JsonString(unwrap_or_default(inp.agent_output))),
                 None, <<>>, None))

\* Every occurrence of a ground id counted: a Vec instead of a BTreeSet.
ground_ids_with_repeats(items) ==
    {<<k, items[k].ground_id>> : k \in 1..Len(items)}

\* The set of the distinct ground ids of grounds or links (a BTreeSet).
ground_ids(items) == {items[k].ground_id : k \in 1..Len(items)}

TextAssertive ==
    <<"W", "e", " ", "s", "h", "o", "u", "l", "d", " ", "d", "e", "p", "l", "o", "y", " ", "n", "o", "w", ".">>
TextCitesCall ==
    <<"Y", "o", "u", " ", "s", "h", "o", "u", "l", "d", " ", "d", "e", "p", "l", "o", "y", " ", "[", "@", "c", "1", "]", ".">>
TextCitesCallAfterOpenMarker ==
    <<"Y", "o", "u", " ", "s", "h", "o", "u", "l", "d", " ", "d", "e", "p", "l", "o", "y", " ", "[", "@", "x", " ", "[", "@", "c", "1", "]", ".">>
TextCitesKey ==
    <<"Y", "o", "u", " ", "s", "h", "o", "u", "l", "d", " ", "d", "e", "p", "l", "o", "y", " ", "[", "@", "k", "1", "]", ".">>
TextConditional ==
    <<"I", "f", " ", "t", "e", "s", "t", "s", " ", "p", "a", "s", "s", ",", " ", "d", "e", "p", "l", "o", "y", " ", "[", "@", "c", "1", "]", ".">>
TextRefusal ==
    <<"I", " ", "c", "a", "n", "n", "o", "t", " ", "d", "e", "t", "e", "r", "m", "i", "n", "e", " ", "t", "h", "a", "t", ".">>
TextDescriptive ==
    <<"T", "a", "s", "k", " ", "A", " ", "b", "l", "o", "c", "k", "s", " ", "t", "a", "s", "k", " ", "B", " ", "[", "@", "c", "1", "]", ".">>
TextGreeting ==
    <<"H", "e", "l", "l", "o", "!", " ", "H", "o", "w", " ", "c", "a", "n", " ", "I", " ", "h", "e", "l", "p", " ", "y", "o", "u", " ", "t", "o", "d", "a", "y", "?">>

TextThanks ==
    <<"T", "h", "a", "n", "k", "s", ",", " ", "s", "e", "e", " ", "y", "o", "u", " ", "s", "o", "o", "n", ".">>
TextBlank == <<" ", " ">>
TextRefusalOfAll ==
    <<"W", "e", " ", "c", "a", "n", "n", "o", "t", " ", "d", "e", "t", "e", "r", "m", "i", "n", "e", " ", "t", "h", "a", "t", ".">>
TextDependsOn ==
    <<"I", "t", " ", "d", "e", "p", "e", "n", "d", "s", " ", "o", "n", " ", "t", "h", "e", " ", "w", "e", "a", "t", "h", "e", "r", " ", "[", "@", "c", "1", "]", ".">>
TextClarify ==
    <<"P", "l", "e", "a", "s", "e", " ", "c", "l", "a", "r", "i", "f", "y", " ", "t", "h", "e", " ", "g", "o", "a", "l", ".">>
TextThanksCitesCall ==
    <<"T", "h", "a", "n", "k", "s", ",", " ", "s", "e", "e", " ", "y", "o", "u", " ", "s", "o", "o", "n", " ", "[", "@", "c", "1", "]", ".">>

Texts ==
    {TextAssertive,
     TextCitesCall,
     TextCitesCallAfterOpenMarker,
     TextCitesKey,
     TextConditional,
     TextRefusal,
     TextDescriptive,
     TextGreeting,
     TextThanks,
     TextThanksCitesCall,
     TextClarify,
     TextDependsOn,
     TextRefusalOfAll,
     TextBlank, <<>>}

CallId == <<"c", "1">>
GetWeather == <<"g", "e", "t", "_", "w", "e", "a", "t", "h", "e", "r">>
SaveMemory == <<"s", "a", "v", "e", "_", "m", "e", "m", "o", "r", "y">>
WeatherResult ==
    <<"{", "\"", "w", "e", "a", "t", "h", "e", "r", "_", "i", "d", "\"", ":", "\"", "n", "y", "c", "\"", "}">>
ItemsResult ==
    <<"[", "{", "\"", "a", "_", "i", "d", "\"", ":", "\"", "1", "\"", "}", ",", "{", "\"", "b", "_", "k", "e", "y", "\"", ":", "\"", "2", "\"", "}", "]">>

AssistantCall(name) ==
    ConversationMessage("assistant", None, None,
                        <<ToolCall(CallId, "function", Some(name))>>, None)

ToolMessage(content) ==
    ConversationMessage("tool", Some(content), Some(CallId), <<>>, None)

\* A declared evidentiary call and its result; a result of an undeclared
\* call; a declared non-epistemic call; a function-role result carrying a
\* list of entities; a tool result whose content is not text.
Exchanges ==
    {<<AssistantCall(GetWeather), ToolMessage(JsonString(WeatherResult))>>,
     <<ToolMessage(JsonString(<<"s", "u", "n", "n", "y">>))>>,
     <<AssistantCall(SaveMemory), ToolMessage(JsonString(<<"o", "k">>))>>,
     <<ConversationMessage("function", Some(JsonString(ItemsResult)), None,
                           <<>>, Some(GetWeather))>>,
     <<ToolMessage(JsonNumber(<<"1">>))>>}

\* An explicit ground under its own key; one under the tool call's id that
\* does not support and names the weather node's semantic id; a second
\* ground under the first key with its own evidence text.
InputGrounds ==
    {Ground(<<"k", "1">>, <<"d", "o", "c", "1">>, "Supports", "UpstreamPipeline", None),
     Ground(CallId, <<"w", "e", "a", "t", "h", "e", "r", "_", "n", "y", "c">>, "Contextualizes", "UpstreamPipeline",
            None),
     Ground(<<"k", "1">>, <<"d", "o", "c", "2">>, "Supports", "Human",
            Some(<<"m", "e", "m", "o">>))}

TextPart(s) ==
    JsonObject(<< <<<<"t", "e", "x", "t">>, JsonString(s)>>,
                  <<<<"t", "y", "p", "e">>, JsonString(<<"t", "e", "x", "t">>)>> >>)

RefusalPart(s) ==
    JsonObject(<< <<<<"r", "e", "f", "u", "s", "a", "l">>, JsonString(s)>>,
                  <<<<"t", "y", "p", "e">>, JsonString(<<"r", "e", "f", "u", "s", "a", "l">>)>> >>)

AssistantMessage(content) ==
    ConversationMessage("assistant", content, None, <<>>, None)

\* Last messages for the validation of the input: contents of every shape.
LastMessages ==
    {ConversationMessage("user", Some(JsonString(TextAssertive)), None, <<>>,
                         None),
     AssistantMessage(Some(JsonString(TextAssertive))),
     AssistantMessage(Some(JsonArray(<<TextPart(TextAssertive)>>))),
     AssistantMessage(Some(JsonArray(
         <<TextPart(<<" ", "W", "e", " ", "s", "h", "o", "u", "l", "d">>),
           TextPart(<<" ", "d", "e", "p", "l", "o", "y", " ", "n", "o", "w", ".", " ">>)>>))),
     AssistantMessage(Some(JsonArray(<<RefusalPart(TextRefusal)>>))),
     AssistantMessage(Some(JsonArray(
         <<TextPart(TextAssertive), RefusalPart(TextRefusal)>>))),
     AssistantMessage(Some(JsonNumber(<<"1">>))),
     AssistantMessage(None)}

\* Inputs that exercise the validation: every combination of an agent
\* output and a conversation of at most one message.
ValidationInputs ==
    {EvaluateInput(out, conv, None) :
        out \in {None, Some(TextAssertive), Some(TextCitesCall)},
        conv \in {None, Some(<<>>)} \cup {Some(<<m>>) : m \in LastMessages}}

\* Inputs that exercise the pipeline: tool exchanges, then a final assistant
\* text, with or without explicit grounds.
PipelineInputs ==
    {EvaluateInput(None,
                   Some(Flatten(es) \o <<AssistantMessage(Some(JsonString(t)))>>),
                   gs) :
        es \in SeqUpTo(Exchanges, MaxExchanges),
        t \in Texts,
        gs \in {None} \cup {Some(g) : g \in SeqUpTo(InputGrounds, MaxGrounds)}}

Inputs == ValidationInputs \cup PipelineInputs

Init ==
    /\ ev_input \in Inputs
    /\ pc = "evaluate"
    /\ outcome = None
    /\ em_agent_message = None
    /\ em_trajectory = <<>>
    /\ em_tool_results = <<>>
    /\ em_knowledge_nodes = <<>>
    /\ em_tool_call_refs = <<>>
    /\ em_text = <<>>
    /\ em_combined_grounds = <<>>
    /\ links = None
    /\ validation_result = None
    /\ statement = NoStatement
    /\ license = {}
    /\ ground_set = <<>>
    /\ check_result = None
    /\ derived = None
    /\ axiom_results = <<>>
    /\ CallIdle

\* evaluate, lines 50-86: the input is validated.
Evaluate ==
    /\ pc = "evaluate"
    /\ LET validated(v) ==
               IF v.ok
               THEN /\ em_agent_message' = Some(v.value[1])
                    /\ em_trajectory' = v.value[2]
                    /\ pc' = "evaluate_message"
                    /\ UNCHANGED outcome
               ELSE /\ outcome' = Some(v)
                    /\ pc' = "done"
                    /\ UNCHANGED <<em_agent_message, em_trajectory>>
       IN  validated(validate_input(ev_input))
    /\ UNCHANGED <<ev_input, em_tool_results, em_knowledge_nodes, em_tool_call_refs, em_text,
                   em_combined_grounds, links, validation_result, UnitVars, CallVars>>

\* evaluate_message, lines 266-274: tool results, knowledge nodes, the text.
BuildKnowledge ==
    /\ pc = "evaluate_message"
    /\ LET store(results, built, speech_act) ==
               /\ em_tool_results' = results.value
               /\ em_knowledge_nodes' =
                      materialize_external_grounds(built[1],
                          unwrap_or_default(ev_input.grounds))
               /\ em_tool_call_refs' = built[2]
               /\ em_text' = speech_act.value
               /\ pc' = "link"
               /\ UNCHANGED outcome
           fail(error) ==
               /\ outcome' = Some(error)
               /\ pc' = "done"
               /\ UNCHANGED <<em_tool_results, em_knowledge_nodes,
                              em_tool_call_refs, em_text>>
           of_speech_act(results, speech_act) ==
               IF ~speech_act.ok THEN fail(speech_act)
               ELSE store(results, build_with_references(results.value),
                          speech_act)
           of_results(results) ==
               IF ~results.ok THEN fail(results)
               ELSE of_speech_act(results,
                        to_speech_act(Unwrap(em_agent_message)))
       IN  of_results(extract_tool_results(em_trajectory))
    /\ UNCHANGED <<ev_input, em_agent_message, em_trajectory, em_combined_grounds, links,
                   validation_result, UnitVars, CallVars>>

\* evaluate_message, lines 276-282: the grounds and the links of the text.
BuildLinks ==
    /\ pc = "link"
    /\ em_combined_grounds' = unwrap_or_default(ev_input.grounds)
                           \o grounds_from_tool_call_refs(em_tool_call_refs)
    /\ links' = Some(build_links_from_grounds(em_text, em_combined_grounds',
                                              "final_response"))
    /\ pc' = "core"
    /\ UNCHANGED <<ev_input, outcome, em_agent_message, em_trajectory, em_tool_results,
                   em_knowledge_nodes, em_tool_call_refs, em_text, validation_result,
                   UnitVars, CallVars>>

\* evaluate_message, lines 283-297: the evaluation, the counts, the judgment.
EvaluateCore ==
    /\ pc = "core"
    /\ LET finish(internal_result) ==
               /\ validation_result' = Some(internal_result)
               /\ outcome' = Some(Ok(to_judgment(internal_result)))
       IN  finish([evaluate_core(em_text, em_knowledge_nodes, links) EXCEPT
                      !.grounds_accepted =
                          Cardinality(ground_ids(em_combined_grounds)),
                      !.grounds_cited = Cardinality(ground_ids(Unwrap(links)))])
    /\ pc' = "done"
    /\ UNCHANGED <<ev_input, em_agent_message, em_trajectory, em_tool_results,
                   em_knowledge_nodes, em_tool_call_refs, em_text, em_combined_grounds,
                   links, UnitVars, CallVars>>

Next == Evaluate \/ BuildKnowledge \/ BuildLinks \/ EvaluateCore

Spec == Init /\ [][Next]_vars

(***************************************************************************)
(* extract_text_content on contents of every shape.                        *)
(***************************************************************************)
MaxParts == 3

\* Parts of a content list: text and refusal parts with and without
\* surrounding blanks, a part of another type, and an item that is no object.
ContentParts ==
    {TextPart(<<" ", "W", "e">>), TextPart(<<" ", "s", "h", "i", "p", ".", " ">>), RefusalPart(<<"I", " ", "c", "a", "n", "n", "o", "t", ".">>), RefusalPart(<<" ", "N", "o", " ">>),
     JsonObject(<< <<<<"t", "y", "p", "e">>, JsonString(<<"i", "m", "a", "g", "e">>)>> >>), JsonNumber(<<"1">>)}

Contents ==
    {None, Some(JsonNull), Some(JsonBool(TRUE)), Some(JsonNumber(<<"1">>)),
     Some(JsonObject(<<>>)), Some(TextPart(<<"a">>)),
     Some(JsonString(<<>>)), Some(JsonString(<<" ", "a", " ", "b", " ">>)), Some(JsonString(<<"W", "e", " ", "s", "h", "i", "p", ".">>))}
    \cup {Some(JsonArray(parts)) : parts \in SeqUpTo(ContentParts, MaxParts)}

InitText ==
    /\ call_args \in {<<content>> : content \in Contents}
    /\ call_result = None
    /\ frame = None
    /\ UnitIdle
    /\ PipelineIdle

ExtractTextContent ==
    /\ call_result = None
    /\ call_result' = Some(extract_text_content(call_args[1]))
    /\ UNCHANGED <<call_args, frame, UnitVars, links, validation_result, PipelineVars>>

SpecText == InitText /\ [][ExtractTextContent]_vars

(***************************************************************************)
(* extract_citation_keys on texts made of markers and marker fragments.    *)
(***************************************************************************)
MaxPieces == 4

\* Two valid markers, an opening without its key, a closing bracket, a
\* letter, a marker whose key starts with a digit, a marker with every kind
\* of key character, a blank.
TextPieces ==
    {<<"[", "@", "a", "]">>, <<"[", "@", "b", "]">>, <<"[", "@">>, <<"]">>, <<"a">>, <<"[", "@", "1", "]">>, <<"[", "@", "a", "-", "_", "1", "]">>, <<" ">>}

PiecedTexts == {Flatten(ps) : ps \in SeqUpTo(TextPieces, MaxPieces)}

InitKeys ==
    /\ call_args \in {<<text>> : text \in PiecedTexts}
    /\ call_result = None
    /\ frame = None
    /\ UnitIdle
    /\ PipelineIdle

ExtractCitationKeys ==
    /\ call_result = None
    /\ call_result' = Some(extract_citation_keys(call_args[1]))
    /\ UNCHANGED <<call_args, frame, UnitVars, links, validation_result, PipelineVars>>

SpecKeys == InitKeys /\ [][ExtractCitationKeys]_vars

(***************************************************************************)
(* build_links_from_grounds on cited texts and lists of grounds.           *)
(***************************************************************************)
MaxCitations == 3
MaxLinkGrounds == 2

CitationPieces == {<<"[", "@", "a", "]">>, <<"[", "@", "b", "]">>, <<"[", "@", "c", "]">>, <<"x">>}

CitingTexts == {Flatten(ps) : ps \in SeqUpTo(CitationPieces, MaxCitations)}

\* Grounds under the keys a and b, two of them with the same ground id, with
\* and without an evidence text, and a ground under a key no text cites.
LinkGrounds ==
    {Ground(<<"a">>, <<"g", "1">>, "Supports", "UpstreamPipeline", None),
     Ground(<<"a">>, <<"g", "2">>, "Contextualizes", "Human", Some(<<"m", "e", "m", "o">>)),
     Ground(<<"b">>, <<"g", "1">>, "Supports", "ToolObserver", Some(<<"t", "o", "o", "l", "_", "c", "a", "l", "l", "_", "i", "d", "=", "b">>)),
     Ground(<<"b">>, <<"g", "3">>, "Disambiguates", "UpstreamPipeline", None),
     Ground(<<"d">>, <<"g", "4">>, "Supports", "UpstreamPipeline", None)}

InitLinks ==
    /\ call_args \in {<<text, grounds>> :
                        text \in CitingTexts,
                        grounds \in SeqUpTo(LinkGrounds, MaxLinkGrounds)}
    /\ call_result = None
    /\ frame = None
    /\ UnitIdle
    /\ PipelineIdle

BuildLinksFromGrounds ==
    /\ call_result = None
    /\ call_result' = Some(build_links_from_grounds(call_args[1], call_args[2],
                                                    "final_response"))
    /\ UNCHANGED <<call_args, frame, UnitVars, links, validation_result, PipelineVars>>

SpecLinks == InitLinks /\ [][BuildLinksFromGrounds]_vars

(***************************************************************************)
(* build_with_references on lists of tool results.                         *)
(***************************************************************************)
MaxToolResults == 3

RememberTool == <<"R", "e", "m", "e", "m", "b", "e", "r", "_", "F", "a", "c", "t">>
OtherCallId == <<"c", "2">>

\* An evidentiary tool, a non-epistemic one (named in capitals), a result
\* without a tool name; without a call id and under two call ids; a result
\* text that is empty, not JSON, an array without an identifying field, and
\* an array of two entities.
BuilderResults ==
    {ToolResultSpeechAct(GetWeather, Some(CallId), ItemsResult),
     ToolResultSpeechAct(GetWeather, Some(CallId), <<"o", "o", "p", "s">>),
     ToolResultSpeechAct(GetWeather, None, <<"[", "1", "]">>),
     ToolResultSpeechAct(GetWeather, Some(OtherCallId), <<>>),
     ToolResultSpeechAct(RememberTool, Some(CallId), ItemsResult),
     ToolResultSpeechAct(RememberTool, Some(OtherCallId), <<"o", "o", "p", "s">>),
     ToolResultSpeechAct(RememberTool, None, <<>>),
     ToolResultSpeechAct(<<>>, Some(OtherCallId), <<"[", "1", "]">>),
     ToolResultSpeechAct(<<>>, None, ItemsResult),
     ToolResultSpeechAct(<<>>, Some(CallId), <<>>)}

InitBuild ==
    /\ call_args \in {<<rs>> : rs \in SeqUpTo(BuilderResults, MaxToolResults)}
    /\ call_result = None
    /\ frame = None
    /\ UnitIdle
    /\ PipelineIdle

BuildWithReferences ==
    /\ call_result = None
    /\ call_result' = Some(build_with_references(call_args[1]))
    /\ UNCHANGED <<call_args, frame, UnitVars, links, validation_result, PipelineVars>>

SpecBuild == InitBuild /\ [][BuildWithReferences]_vars

(***************************************************************************)
(* materialize_external_grounds on lists of nodes and of grounds.          *)
(***************************************************************************)
\* A node whose id is a ground id, a node whose semantic id is another
\* ground id, a node no ground names.
ExistingNodes ==
    {KnowledgeNode(<<"g", "1">>, "Factual", "strong", None),
     KnowledgeNode(<<"n", "1">>, "Factual", "weak", Some(<<"g", "3">>)),
     KnowledgeNode(<<"n", "2">>, "Contextual", "weak", None)}

InitMaterialize ==
    /\ call_args \in {<<knowledge_nodes, grounds>> :
                        knowledge_nodes \in SeqUpTo(ExistingNodes, MaxNodes),
                        grounds \in SeqUpTo(LinkGrounds, MaxLinkGrounds)}
    /\ call_result = None
    /\ frame = None
    /\ UnitIdle
    /\ PipelineIdle

MaterializeExternalGrounds ==
    /\ call_result = None
    /\ call_result' = Some(materialize_external_grounds(call_args[1],
                                                         call_args[2]))
    /\ UNCHANGED <<call_args, frame, UnitVars, links, validation_result, PipelineVars>>

SpecMaterialize == InitMaterialize /\ [][MaterializeExternalGrounds]_vars

(***************************************************************************)
(* stable_id_fragment on short id strings.                                 *)
(***************************************************************************)
MaxIdLen == 3

IdStrings == SeqUpTo({"a", "z", ":", "_", "1"}, MaxIdLen)

InitFragment ==
    /\ call_args \in {<<value>> : value \in IdStrings}
    /\ call_result = None
    /\ frame = None
    /\ UnitIdle
    /\ PipelineIdle

StableIdFragment ==
    /\ call_result = None
    /\ call_result' = Some(stable_id_fragment(call_args[1]))
    /\ UNCHANGED <<call_args, frame, UnitVars, links, validation_result, PipelineVars>>

SpecFragment == InitFragment /\ [][StableIdFragment]_vars

(***************************************************************************)
(* ModalityDetector::detect on texts made of marker phrases.               *)
(***************************************************************************)
MaxPhrases == 3

\* One marker of each rule of detect (the goal-conditional prefix with a
\* capital), a normative verb, a letter, and a sentence end.
Phrases ==
    {<<"c", "a", "n", "n", "o", "t", " ", "d", "e", "c", "i", "d", "e">>,
     <<"I", "f", " ", "y", "o", "u", " ", "w", "a", "n", "t">>,
     <<"f", "o", "r", " ", "y", "o", "u">>,
     <<" ", "i", "s", " ", "b", "e", "t", "t", "e", "r">>,
     <<"i", "f", " ">>,
     <<"b", "l", "o", "c", "k", "s">>,
     <<"s", "h", "o", "u", "l", "d">>,
     <<"x">>,
     <<".", " ">>}

PhrasedTexts == {Flatten(ps) : ps \in SeqUpTo(Phrases, MaxPhrases)}

InitDetect ==
    /\ call_args \in {<<text>> : text \in PhrasedTexts}
    /\ call_result = None
    /\ frame = None
    /\ UnitIdle
    /\ PipelineIdle

Detect ==
    /\ call_result = None
    /\ call_result' = Some(detect(call_args[1]))
    /\ UNCHANGED <<call_args, frame, UnitVars, links, validation_result, PipelineVars>>

SpecDetect == InitDetect /\ [][Detect]_vars

(***************************************************************************)
(* AdmissibilityJudgment::to_json_value on judgments with optional fields   *)
(* present and absent.                                                     *)
(***************************************************************************)
MaxEvaluations == 1
MaxTrace == 1

JsonGroundRefs ==
    {[id |-> <<"g", "1">>, scope |-> "factual", source |-> "observed",
      status |-> "confirmed", confidence |-> 1, strength |-> "strong",
      semantic_id |-> sem] : sem \in {None, Some(<<"w", "e", "a", "t", "h", "e", "r", "_", "n", "y", "c">>)}}

JsonEvaluations ==
    {[statement_id |-> "final_response", statement |-> TextAssertive,
      modality |-> "assertive", license |-> {"refusal", "assertive"},
      status |-> IF IsSome(ax) THEN "ViolatesNorm" ELSE "Acceptable",
      violated_axiom |-> ax, explanation |-> "", grounding_trace |-> trace,
      subject |-> subject, predicate |-> predicate] :
        ax \in {None, Some("A5")},
        trace \in SeqUpTo(JsonGroundRefs, MaxTrace),
        subject \in {None, Some("agent")},
        predicate \in {None, Some("participation")}}

JsonJudgments ==
    {[status |-> status, licensed |-> TRUE, can_retry |-> IsSome(hint),
      statement_evaluations |-> evals, feedback_hint |-> hint,
      violated_axioms |->
          Flatten([k \in 1..Len(evals) |-> evals[k].violated_axiom]),
      explanation |-> "", num_statements |-> Len(evals), num_acceptable |-> 0,
      grounds_accepted |-> accepted, grounds_cited |-> 1] :
        status \in {"Acceptable", "NoNormativeContent"},
        evals \in SeqUpTo(JsonEvaluations, MaxEvaluations),
        hint \in {None, Some("hint")},
        accepted \in {1, 12}}

InitJson ==
    /\ call_args \in {<<judgment>> : judgment \in JsonJudgments}
    /\ call_result = None
    /\ frame = None
    /\ UnitIdle
    /\ PipelineIdle

ToJsonValue ==
    /\ call_result = None
    /\ call_result' = Some(to_json_value(call_args[1]))
    /\ UNCHANGED <<call_args, frame, UnitVars, links, validation_result, PipelineVars>>

SpecJson == InitJson /\ [][ToJsonValue]_vars

(***************************************************************************)
(* extract_core_assertion on texts of sentences, lines and paragraphs.     *)
(***************************************************************************)
MaxCorePieces == 5

CorePieces == {<<"a">>, <<".", " ">>, <<"\n", "\n">>, <<"\n">>, <<"b", ".">>, <<" ">>}

CoreTexts == {Flatten(ps) : ps \in SeqUpTo(CorePieces, MaxCorePieces)}

InitCore ==
    /\ call_args \in {<<text>> : text \in CoreTexts}
    /\ call_result = None
    /\ frame = None
    /\ UnitIdle
    /\ PipelineIdle

ExtractCoreAssertion ==
    /\ call_result = None
    /\ call_result' = Some(extract_core_assertion(call_args[1]))
    /\ UNCHANGED <<call_args, frame, UnitVars, links, validation_result, PipelineVars>>

SpecCore == InitCore /\ [][ExtractCoreAssertion]_vars

(***************************************************************************)
(* strip_protocol_suffix pass by pass, on texts of protocol offers and of   *)
(* the letter U+0130.                                                      *)
(***************************************************************************)
MaxSuffixPieces == 3

\* Ten capital I with dot above: their lower case is ten bytes longer, the
\* length of the marker "i can help".
TenDottedCapitalI ==
    <<"xC4", "xB0", "xC4", "xB0", "xC4", "xB0", "xC4", "xB0", "xC4", "xB0", "xC4", "xB0", "xC4", "xB0", "xC4", "xB0", "xC4", "xB0", "xC4", "xB0">>

SuffixPieces ==
    {TenDottedCapitalI, DottedCapitalI, <<"i", " ", "c", "a", "n", " ", "h", "e", "l", "p">>, <<" ", "W", "o", "u", "l", "d", " ", "y", "o", "u", " ", "l", "i", "k", "e">>,
     <<"a", ".">>, <<" ">>}

SuffixTexts == {Flatten(ps) : ps \in SeqUpTo(SuffixPieces, MaxSuffixPieces)}

InitSuffix ==
    /\ call_args \in {<<text>> : text \in SuffixTexts}
    /\ call_result = None
    /\ frame = None
    /\ UnitIdle
    /\ PipelineIdle

\* The markers of the catalogue, by position, that the lower-cased text has.
suffix_markers_in(lower) ==
    {m \in 1..Len(ProtocolSuffixMarkers) :
        contains(lower, ProtocolSuffixMarkers[m])}

\* The offset, in the lower-cased text, of the last occurrence of the first
\* marker of the catalogue that occurs.
suffix_cut_offset(lower) ==
    Unwrap(rfind(lower, ProtocolSuffixMarkers[Min(suffix_markers_in(lower))]))

\* Line 96: out = text.trim().
SuffixEnter ==
    /\ frame = None
    /\ call_result = None
    /\ frame' = Some([out |-> trim(call_args[1]), pass |-> 0,
                      state |-> "running"])
    /\ UNCHANGED <<call_args, call_result, UnitVars, links, validation_result,
                   PipelineVars>>

\* Lines 97-114: a pass that finds a marker; out[..idx] with the offset found
\* in the lower-cased text.
SuffixPass ==
    /\ IsSome(frame)
    /\ Unwrap(frame).state = "running"
    /\ Unwrap(frame).pass < 5
    /\ LET cut(out, idx) ==
               /\ idx <= Len(out)
               /\ is_char_boundary(out, idx)
               /\ frame' = Some([Unwrap(frame) EXCEPT
                      !.out = trim_end_matches(trim(Slice(out, 0, idx)),
                                  LAMBDA c : c \in {".", ",", ";"}),
                      !.pass = @ + 1])
           of_lower(out, lower) ==
               /\ suffix_markers_in(lower) # {}
               /\ cut(out, suffix_cut_offset(lower))
       IN  of_lower(Unwrap(frame).out, to_lowercase(Unwrap(frame).out))
    /\ UNCHANGED <<call_args, call_result, UnitVars, links, validation_result,
                   PipelineVars>>

\* Line 108: out[..idx] panics when the offset is past the end of out or
\* inside a character.
SuffixPanic ==
    /\ IsSome(frame)
    /\ Unwrap(frame).state = "running"
    /\ Unwrap(frame).pass < 5
    /\ LET bad(out, idx) == idx > Len(out) \/ ~is_char_boundary(out, idx)
           of_lower(out, lower) ==
               /\ suffix_markers_in(lower) # {}
               /\ bad(out, suffix_cut_offset(lower))
       IN  of_lower(Unwrap(frame).out, to_lowercase(Unwrap(frame).out))
    /\ frame' = Some([Unwrap(frame) EXCEPT !.state = "panicked"])
    /\ UNCHANGED <<call_args, call_result, UnitVars, links, validation_result,
                   PipelineVars>>

\* Lines 115-120: a pass that finds no marker, or the end of the fifth pass.
SuffixReturn ==
    /\ IsSome(frame)
    /\ Unwrap(frame).state = "running"
    /\ \/ Unwrap(frame).pass = 5
       \/ suffix_markers_in(to_lowercase(Unwrap(frame).out)) = {}
    /\ frame' = Some([Unwrap(frame) EXCEPT !.state = "returned"])
    /\ call_result' = Some(Unwrap(frame).out)
    /\ UNCHANGED <<call_args, UnitVars, links, validation_result, PipelineVars>>

NextSuffix == SuffixEnter \/ SuffixPass \/ SuffixPanic \/ SuffixReturn

SpecSuffix == InitSuffix /\ [][NextSuffix]_vars

(***************************************************************************)
(* strip_protocol_prefix_sentences on texts of whole sentences.            *)
(***************************************************************************)
MaxSentences == 3

\* A protocol offer; a sentence with a protocol phrase in its middle; a
\* question; a plain sentence; a sentence with a strong normative marker; a
\* protocol offer with a personalization marker; a question with a weak
\* normative marker.
Sentences ==
    {<<"I", " ", "c", "a", "n", " ", "h", "e", "l", "p", ".">>,
     <<"W", "e", "l", "l", ",", " ", "I", " ", "c", "a", "n", " ", "t", "r", "y", ".">>,
     <<"R", "e", "a", "d", "y", "?">>,
     <<"I", "t", " ", "i", "s", " ", "f", "i", "n", "e", ".">>,
     <<"Y", "o", "u", " ", "s", "h", "o", "u", "l", "d", " ", "g", "o", ".">>,
     <<"I", " ", "c", "a", "n", " ", "d", "o", " ", "i", "t", " ", "f", "o", "r", " ", "y", "o", "u", ".">>,
     <<"I", "s", " ", "i", "t", " ", "b", "l", "o", "c", "k", "e", "d", "?">>}

SentenceTexts == {join(ss, <<" ">>) : ss \in SeqUpTo(Sentences, MaxSentences)}

InitPrefix ==
    /\ call_args \in {<<text>> : text \in SentenceTexts}
    /\ call_result = None
    /\ frame = None
    /\ UnitIdle
    /\ PipelineIdle

StripProtocolPrefixSentences ==
    /\ call_result = None
    /\ call_result' = Some(strip_protocol_prefix_sentences(call_args[1]))
    /\ UNCHANGED <<call_args, frame, UnitVars, links, validation_result, PipelineVars>>

SpecPrefix == InitPrefix /\ [][StripProtocolPrefixSentences]_vars

(***************************************************************************)
(* LicenseDeriver::derive on a ground set before and after a node is       *)
(* pushed onto it.                                                         *)
(***************************************************************************)
MaxBaseNodes == 1

InitAddNode ==
    /\ call_args \in {<<gs, node, link_opt>> :
                         gs \in SeqUpTo(UnitNodes, MaxBaseNodes),
                         node \in UnitNodes,
                         link_opt \in UnitLinkSets}
    /\ call_result = None
    /\ frame = None
    /\ UnitIdle
    /\ PipelineIdle

\* derive on the ground set, then on the ground set with the node pushed.
DeriveWithNodeAdded ==
    /\ call_result = None
    /\ call_result' =
           Some(<<derive(call_args[1], call_args[3]),
                  derive(Append(call_args[1], call_args[2]), call_args[3])>>)
    /\ UNCHANGED <<call_args, frame, UnitVars, links, validation_result, PipelineVars>>

SpecAddNode == InitAddNode /\ [][DeriveWithNodeAdded]_vars

(***************************************************************************)
(* evaluate_core on texts of every modality, with and without nodes and    *)
(* links.                                                                  *)
(***************************************************************************)
MaxCoreNodes == 2
MaxCoreLinks == 1

CoreTextsOfEveryModality ==
    {TextAssertive, TextConditional, TextDependsOn, TextDescriptive,
     TextRefusalOfAll, TextGreeting, TextBlank, <<>>}

CoreNodes ==
    {KnowledgeNode(Id("1"), "Factual", "strong", None),
     KnowledgeNode(Id("1"), "Factual", "weak", None),
     KnowledgeNode(Id("2"), "Contextual", "strong", None)}

CoreLinkSets == {None} \cup {Some(ls) : ls \in SeqUpTo(UnitLinks, MaxCoreLinks)}

InitEvaluateCore ==
    /\ call_args \in {<<agent_output, knowledge_nodes, link_opt>> :
                         agent_output \in CoreTextsOfEveryModality,
                         knowledge_nodes \in SeqUpTo(CoreNodes, MaxCoreNodes),
                         link_opt \in CoreLinkSets}
    /\ call_result = None
    /\ frame = None
    /\ UnitIdle
    /\ PipelineIdle

EvaluateCoreOnText ==
    /\ call_result = None
    /\ call_result' = Some(evaluate_core(call_args[1], call_args[2], call_args[3]))
    /\ UNCHANGED <<call_args, frame, UnitVars, links, validation_result, PipelineVars>>

SpecEvaluateCore == InitEvaluateCore /\ [][EvaluateCoreOnText]_vars

(***************************************************************************)
(* Claims about the components.                                            *)
(***************************************************************************)
ACR == {"Assertive", "Conditional", "Refusal"}
CR == {"Conditional", "Refusal"}
Statuses(rs) == {rs[i].status : i \in 1..Len(rs)}

\* C1: for every non-empty list of per-statement results aggregate returns
\* the (status, licensed, can_retry) of the first matching rule: any
\* ViolatesNorm -> (ViolatesNorm, false, true); else any IllFormed ->
\* (IllFormed, false, true); else any Underdetermined -> (Underdetermined,
\* false, false); else any Unsupported -> (Unsupported, true, true); else any
\* ConditionallyAcceptable -> (ConditionallyAcceptable, true, false); else
\* (Acceptable, true, false).
C1_AggregatePrecedence ==
    (IsSome(validation_result) /\ axiom_results # <<>>) =>
        LET v == Unwrap(validation_result)
            got == <<v.status, v.licensed, v.can_retry>>
            S == Statuses(axiom_results)
        IN  CASE "ViolatesNorm" \in S -> got = <<"ViolatesNorm", FALSE, TRUE>>
              [] "ViolatesNorm" \notin S /\ "IllFormed" \in S ->
                    got = <<"IllFormed", FALSE, TRUE>>
              [] {"ViolatesNorm", "IllFormed"} \cap S = {}
                 /\ "Underdetermined" \in S ->
                    got = <<"Underdetermined", FALSE, FALSE>>
              [] {"ViolatesNorm", "IllFormed", "Underdetermined"} \cap S = {}
                 /\ "Unsupported" \in S ->
                    got = <<"Unsupported", TRUE, TRUE>>
              [] {"ViolatesNorm", "IllFormed", "Underdetermined",
                  "Unsupported"} \cap S = {}
                 /\ "ConditionallyAcceptable" \in S ->
                    got = <<"ConditionallyAcceptable", TRUE, FALSE>>
              [] OTHER -> got = <<"Acceptable", TRUE, FALSE>>

\* An Unsupported and an Underdetermined result aggregated together, with
\* an Acceptable one: Underdetermined wins.
C1_Witness ==
    /\ IsSome(validation_result)
    /\ Statuses(axiom_results) = {"Unsupported", "Underdetermined", "Acceptable"}
    /\ Unwrap(validation_result).status = "Underdetermined"
    /\ Unwrap(validation_result).licensed = FALSE
    /\ Unwrap(validation_result).can_retry = FALSE

\* C2: check returns Acceptable with no violated axiom for every statement
\* of modality Refusal, for every license (the empty one included) and every
\* ground set (the empty one included).
C2_RefusalAlwaysAcceptable ==
    (IsSome(check_result) /\ statement.modality = Some("Refusal")) =>
        /\ Unwrap(check_result).status = "Acceptable"
        /\ Unwrap(check_result).violated_axiom = None

\* A refusal checked under the empty license and the empty ground set.
C2_Witness ==
    /\ IsSome(check_result)
    /\ statement.modality = Some("Refusal")
    /\ license = {}
    /\ ground_set = <<>>
    /\ Unwrap(check_result).status = "Acceptable"

\* C3: check returns ViolatesNorm with axiom A5 for every Assertive
\* statement whose license does not permit Assertive, whatever the ground
\* set is (with an empty ground set too: A5, not A4/Unsupported).
C3_AssertiveUnlicensedIsA5 ==
    (/\ IsSome(check_result)
     /\ statement.modality = Some("Assertive")
     /\ "Assertive" \notin license) =>
        /\ Unwrap(check_result).status = "ViolatesNorm"
        /\ Unwrap(check_result).violated_axiom = Some("A5")

\* An unlicensed Assertive statement over the empty ground set.
C3_Witness ==
    /\ IsSome(check_result)
    /\ statement.modality = Some("Assertive")
    /\ "Assertive" \notin license
    /\ ground_set = <<>>
    /\ Unwrap(check_result).violated_axiom = Some("A5")

\* C4: for every Conditional statement check returns
\* ConditionallyAcceptable when the license permits Assertive; otherwise
\* ConditionallyAcceptable when the condition list is non-empty; otherwise
\* Unsupported with axiom A7; whatever the ground set is.
C4_ConditionalOutcomes ==
    (IsSome(check_result) /\ statement.modality = Some("Conditional")) =>
        LET r == Unwrap(check_result)
            got == <<r.status, r.violated_axiom>>
        IN  IF "Assertive" \in license \/ Len(statement.conditions) > 0
            THEN got = <<"ConditionallyAcceptable", None>>
            ELSE got = <<"Unsupported", Some("A7")>>

\* A Conditional statement with no condition and an empty ground set whose
\* license permits Assertive: accepted on the permission alone.
C4_Witness ==
    /\ IsSome(check_result)
    /\ statement.modality = Some("Conditional")
    /\ statement.conditions = <<>>
    /\ "Assertive" \in license
    /\ ground_set = <<>>
    /\ Unwrap(check_result).status = "ConditionallyAcceptable"

\* C5: for every Descriptive statement check returns Acceptable if the
\* ground set holds a Factual node and Unsupported with axiom A4 otherwise,
\* whatever the license is (the empty license included).
C5_DescriptiveByFactual ==
    (IsSome(check_result) /\ statement.modality = Some("Descriptive")) =>
        LET r == Unwrap(check_result)
            got == <<r.status, r.violated_axiom>>
        IN  IF \E i \in 1..Len(ground_set) : ground_set[i].scope = "Factual"
            THEN got = <<"Acceptable", None>>
            ELSE got = <<"Unsupported", Some("A4")>>

\* A Descriptive statement over Contextual nodes only, licensed for
\* Descriptive all the same: Unsupported.
C5_Witness ==
    /\ IsSome(check_result)
    /\ statement.modality = Some("Descriptive")
    /\ "Descriptive" \in license
    /\ ground_set # <<>>
    /\ \A i \in 1..Len(ground_set) : ground_set[i].scope = "Contextual"
    /\ Unwrap(check_result).violated_axiom = Some("A4")

\* C6: without a LinkSet derive returns {Refusal} for a ground set with no
\* Factual node (the empty one included), {Assertive, Conditional, Refusal}
\* when some Factual node is strong, {Conditional, Refusal} when Factual
\* nodes exist and all are weak.
C6_ConservativeLicense ==
    (IsSome(derived) /\ links = None) =>
        LET F == {i \in 1..Len(ground_set) : ground_set[i].scope = "Factual"}
        IN  Unwrap(derived) =
                IF F = {} THEN {"Refusal"}
                ELSE IF \E i \in F : ground_set[i].strength = "strong"
                     THEN ACR ELSE CR

\* A weak Factual node followed by a strong one, no links: all three.
C6_Witness ==
    /\ IsSome(derived)
    /\ links = None
    /\ Len(ground_set) = 2
    /\ ground_set[1].scope = "Factual" /\ ground_set[1].strength = "weak"
    /\ ground_set[2].scope = "Factual" /\ ground_set[2].strength = "strong"
    /\ Unwrap(derived) = ACR

\* The node a ground id resolves to: the first node with that id, and only
\* when no node has that id the first node with that semantic id.
C7_ResolvesTo(gs, gid, i) ==
    \/ gs[i].id = gid /\ \A j \in 1..(i - 1) : gs[j].id # gid
    \/ /\ \A j \in 1..Len(gs) : gs[j].id # gid
       /\ gs[i].semantic_id = Some(gid)
       /\ \A j \in 1..(i - 1) : gs[j].semantic_id # Some(gid)

\* C7: with a LinkSet derive uses only the links of role Supports, resolves
\* each by node id and only then by semantic id, and returns {Refusal} if no
\* resolved node is Factual, {Assertive, Conditional, Refusal} if some
\* resolved Factual node is strong, {Conditional, Refusal} otherwise.
C7_LinkAwareLicense ==
    (IsSome(derived) /\ IsSome(links)) =>
        LET ls == Unwrap(links)
            F == {i \in 1..Len(ground_set) :
                    /\ ground_set[i].scope = "Factual"
                    /\ \E k \in 1..Len(ls) :
                          /\ ls[k].role = "Supports"
                          /\ C7_ResolvesTo(ground_set, ls[k].ground_id, i)}
        IN  Unwrap(derived) =
                IF F = {} THEN {"Refusal"}
                ELSE IF \E i \in F : ground_set[i].strength = "strong"
                     THEN ACR ELSE CR

\* A Disambiguates link to a strong Factual node beside a Supports link to
\* a weak one: the license stays {Conditional, Refusal}.
C7_Witness ==
    /\ IsSome(derived) /\ IsSome(links)
    /\ \E k \in 1..Len(Unwrap(links)), i \in 1..Len(ground_set) :
          /\ Unwrap(links)[k].role # "Supports"
          /\ C7_ResolvesTo(ground_set, Unwrap(links)[k].ground_id, i)
          /\ ground_set[i].scope = "Factual"
          /\ ground_set[i].strength = "strong"
    /\ \E k \in 1..Len(Unwrap(links)) : Unwrap(links)[k].role = "Supports"
    /\ Unwrap(derived) = CR

(***************************************************************************)
(* Claims about evaluate.                                                  *)
(***************************************************************************)
Marker(key) == <<"[", "@">> \o key \o <<"]">>

\* evaluate has returned a Judgment.
Judged == pc = "done" /\ IsSome(outcome) /\ Unwrap(outcome).ok
Judgment == Unwrap(outcome).value

\* The final text yielded one statement, and it is Assertive.
YieldsAssertive ==
    /\ Len(Judgment.statement_evaluations) = 1
    /\ Judgment.statement_evaluations[1].modality = "assertive"

\* The final text contains a citation marker whose key is a ground's key,
\* the ground being explicit or synthesized from a tool call.
CitesSomeGround ==
    \E k \in 1..Len(em_combined_grounds) :
        contains(em_text, Marker(em_combined_grounds[k].citation_key))

\* C8: whenever the final text yields an Assertive statement and contains
\* no citation marker whose key matches a ground (explicit or synthesized
\* from a tool call), the Judgment has status violates_norm, violated_axioms
\* = [A5], licensed = false and can_retry = true, whatever strong factual
\* knowledge nodes exist uncited; with no conversation and no grounds also
\* grounds_accepted = 0 and grounds_cited = 0.
C8_UncitedAssertiveViolatesA5 ==
    (Judged /\ YieldsAssertive /\ ~CitesSomeGround) =>
        /\ Judgment.status = "ViolatesNorm"
        /\ Judgment.violated_axioms = <<"A5">>
        /\ Judgment.licensed = FALSE
        /\ Judgment.can_retry = TRUE
        /\ (/\ IsNone(ev_input.conversation)
            /\ unwrap_or_default(ev_input.grounds) = <<>>)
           => /\ Judgment.grounds_accepted = 0
              /\ Judgment.grounds_cited = 0

\* An Assertive text without a matching marker judged against a strong
\* factual knowledge node that a tool result or a supplied ground produced.
C8_Witness ==
    /\ Judged /\ YieldsAssertive /\ ~CitesSomeGround
    /\ \E k \in 1..Len(em_knowledge_nodes) :
          /\ em_knowledge_nodes[k].scope = "Factual"
          /\ em_knowledge_nodes[k].strength = "strong"
    /\ Judgment.status = "ViolatesNorm"
    /\ Judgment.violated_axioms = <<"A5">>

\* The call ids c of the tool-role messages that carry the result of an
\* evidentiary tool, c being a valid citation key.
EvidentiaryCallIds ==
    {unwrap_or_default(em_trajectory[k].tool_call_id) :
        k \in {j \in 1..Len(em_trajectory) :
                  /\ em_trajectory[j].role = "tool"
                  /\ IsSome(em_trajectory[j].tool_call_id)
                  /\ is_valid_citation_key(Unwrap(em_trajectory[j].tool_call_id))
                  /\ ~is_non_epistemic_tool(
                         tool_call_name(em_trajectory,
                                        Unwrap(em_trajectory[j].tool_call_id)))}}

GroundedAcceptable ==
    /\ Judgment.status = "Acceptable"
    /\ Judgment.licensed = TRUE
    /\ Judgment.can_retry = FALSE
    /\ Judgment.num_statements = 1
    /\ Judgment.grounds_accepted >= 1
    /\ Judgment.grounds_cited >= 1

\* C9: whenever a tool-role message with call id c (c a valid citation key)
\* carries the result of an evidentiary (not non-epistemic) tool and the
\* final assistant text is an Assertive statement that contains the marker
\* [@c], evaluate returns status acceptable with licensed = true, can_retry
\* = false, num_statements = 1, grounds_accepted >= 1 and grounds_cited >= 1.
C9_CitedToolResultAcceptable ==
    (/\ Judged /\ YieldsAssertive
     /\ \E c \in EvidentiaryCallIds : contains(em_text, Marker(c)))
        => GroundedAcceptable

\* The same outcome holds of every text from which extract_citation_keys
\* returns the call id: what separates the two is the scan of the markers.
C9_ExtractedCitationAcceptable ==
    (/\ Judged /\ YieldsAssertive
     /\ \E c \in EvidentiaryCallIds :
           iter_any(extract_citation_keys(em_text), LAMBDA k : k = c))
        => GroundedAcceptable

\* The marker of the call id follows an unclosed "[@": no key is extracted.
C9_UnextractedMarker ==
    /\ Judged /\ YieldsAssertive
    /\ \E c \in EvidentiaryCallIds : contains(em_text, Marker(c))
    /\ extract_citation_keys(em_text) = <<>>
    /\ Judgment.status = "ViolatesNorm"
    /\ Judgment.grounds_cited = 0

\* C10: evaluate returns the first failure of its validation as an error,
\* never a Judgment: neither agent_output nor conversation supplied ->
\* MissingInput; conversation empty -> InvalidConversation; last message
\* role is not "assistant" -> LastMessageNotAssistant; both supplied and the
\* extracted text of the last message differs from agent_output ->
\* AgentOutputMismatch.
LastOfConversation ==
    Unwrap(ev_input.conversation)[Len(Unwrap(ev_input.conversation))]

C10_ValidationOrder ==
    pc # "evaluate" =>
        IF IsNone(ev_input.agent_output) /\ IsNone(ev_input.conversation)
        THEN outcome = Some(Err("MissingInput"))
        ELSE IF ev_input.conversation = Some(<<>>)
        THEN outcome = Some(Err("InvalidConversation"))
        ELSE IF IsNone(ev_input.conversation) THEN TRUE
        ELSE IF LastOfConversation.role # "assistant"
        THEN outcome = Some(Err("LastMessageNotAssistant"))
        ELSE IF /\ IsSome(ev_input.agent_output)
                /\ extract_text_content(LastOfConversation.content).ok
                /\ extract_text_content(LastOfConversation.content).value
                       # Unwrap(ev_input.agent_output)
        THEN outcome = Some(Err("AgentOutputMismatch"))
        ELSE TRUE

\* A conversation that ends with a user message whose text differs from the
\* agent output supplied with it: the role is reported, not the mismatch.
C10_Witness ==
    /\ pc = "done"
    /\ IsSome(ev_input.agent_output)
    /\ IsSome(ev_input.conversation)
    /\ ev_input.conversation # Some(<<>>)
    /\ LastOfConversation.role # "assistant"
    /\ extract_text_content(LastOfConversation.content).ok
    /\ extract_text_content(LastOfConversation.content).value
           # Unwrap(ev_input.agent_output)
    /\ outcome = Some(Err("LastMessageNotAssistant"))

(***************************************************************************)
(* Claims about the text of a message.                                     *)
(***************************************************************************)
\* A part {type: kind, kind: <string>} of a content list.
IsPartOf(part, kind) ==
    /\ part.kind = "Object"
    /\ \E e \in 1..Len(part.map) :
          part.map[e] = <<<<"t", "y", "p", "e">>, JsonString(kind)>>
    /\ \E e \in 1..Len(part.map) :
          part.map[e][1] = kind /\ part.map[e][2].kind = "String"

PayloadOf(part, kind) ==
    part.map[CHOOSE e \in 1..Len(part.map) : part.map[e][1] = kind][2].str

IsTextPart(part) == IsPartOf(part, <<"t", "e", "x", "t">>)
IsRefusalPart(part) == IsPartOf(part, <<"r", "e", "f", "u", "s", "a", "l">>)

\* The payloads of the parts in order, concatenated and trimmed.
TrimmedConcat(parts, kind) ==
    trim(Flatten([k \in 1..Len(parts) |-> PayloadOf(parts[k], kind)]))

ValidKey(key) ==
    /\ Len(key) >= 1
    /\ key[1] \in Letters
    /\ \A j \in 2..Len(key) : key[j] \in Letters \cup Digits \cup {"_", "-"}

\* The valid keys k whose marker [@k] occurs in the text.
CitedKeys(text) ==
    {key \in {SubSeq(text, i, j) : i \in 1..Len(text), j \in 1..Len(text)} :
        ValidKey(key) /\ contains(text, Marker(key))}

\* 0-based offset of the first occurrence of the marker of a key.
FirstCitedAt(text, key) == Unwrap(find(text, Marker(key)))

NoKeyRepeated(keys) ==
    \A i \in 1..Len(keys) : \A j \in 1..Len(keys) : keys[i] = keys[j] => i = j

\* C12: extract_citation_keys returns valid citation keys of the text, each
\* once, in the order of the first occurrences of their markers: every
\* returned key is valid and cited in the text, and a key cited several
\* times appears once, at the position of its first occurrence.
C12_KeysInOrderOfFirstOccurrence ==
    IsSome(call_result) =>
        LET of(text, keys) ==
                /\ iter_all(keys, ValidKey)
                /\ \A i \in 1..Len(keys) : keys[i] \in CitedKeys(text)
                /\ NoKeyRepeated(keys)
                /\ \A i \in 1..Len(keys) : \A j \in 1..Len(keys) :
                      i < j => FirstCitedAt(text, keys[i])
                                   < FirstCitedAt(text, keys[j])
        IN  of(call_args[1], Unwrap(call_result))

\* What holds of every text: the returned keys are valid, cited and distinct.
C12_KeysValidAndDistinct ==
    IsSome(call_result) =>
        /\ iter_all(Unwrap(call_result), ValidKey)
        /\ \A i \in 1..Len(Unwrap(call_result)) :
              Unwrap(call_result)[i] \in CitedKeys(call_args[1])
        /\ NoKeyRepeated(Unwrap(call_result))

\* A key whose first marker follows an unclosed opening is returned after a
\* key that is cited later.
C12_LaterKeyFirst ==
    /\ IsSome(call_result)
    /\ Len(Unwrap(call_result)) = 2
    /\ FirstCitedAt(call_args[1], Unwrap(call_result)[2])
           < FirstCitedAt(call_args[1], Unwrap(call_result)[1])

\* C13: for every text and every valid key k, if the text contains the
\* marker [@k] then k is among the keys extract_citation_keys returns,
\* whatever invalid or empty candidate precedes the marker.
C13_EveryCitedKeyExtracted ==
    IsSome(call_result) =>
        \A key \in CitedKeys(call_args[1]) :
            iter_any(Unwrap(call_result), LAMBDA k : k = key)

\* A valid marker after an unclosed opening: nothing is extracted.
C13_MarkerSwallowed ==
    /\ IsSome(call_result)
    /\ CitedKeys(call_args[1]) # {}
    /\ Unwrap(call_result) = <<>>

\* The pairs <<k, g>> of an extracted key and a ground under that key.
CitedPairs(keys, grounds) ==
    {p \in (1..Len(keys)) \X (1..Len(grounds)) :
        grounds[p[2]].citation_key = keys[p[1]]}

\* The place of a pair when keys go in extraction order and, under one key,
\* grounds go in their input order.
PlaceOf(p, pairs) ==
    1 + Cardinality({q \in pairs :
                        q[1] < p[1] \/ (q[1] = p[1] /\ q[2] < p[2])})

\* C14: build_links_from_grounds emits, for each key extracted from the
\* text in extraction order, exactly one link per ground whose citation key
\* equals that key, in the grounds' input order, carrying the ground's id
\* and role; a cited key without a ground and a ground whose key is not
\* cited produce no link; a link's evidence text is the ground's evidence
\* text, or "citation_key=<key>" when the ground has none.
C14_LinksOfCitedGrounds ==
    IsSome(call_result) =>
        LET of(keys, grounds, made, pairs) ==
                /\ Len(made) = Cardinality(pairs)
                /\ \A p \in pairs :
                      /\ made[PlaceOf(p, pairs)].ground_id
                             = grounds[p[2]].ground_id
                      /\ made[PlaceOf(p, pairs)].role = grounds[p[2]].role
                      /\ made[PlaceOf(p, pairs)].provenance.evidence_content
                             = IF IsSome(grounds[p[2]].evidence_content)
                               THEN grounds[p[2]].evidence_content
                               ELSE Some(<<"c", "i", "t", "a", "t", "i", "o", "n", "_", "k", "e", "y", "=">> \o keys[p[1]])
            with(keys, grounds, made) ==
                of(keys, grounds, made, CitedPairs(keys, grounds))
        IN  with(extract_citation_keys(call_args[1]), call_args[2],
                 Unwrap(call_result))

\* Two keys cited, the second key's ground given first: the links follow
\* the keys; and a ground without evidence text gets the key's.
C14_Witness ==
    /\ IsSome(call_result)
    /\ Len(extract_citation_keys(call_args[1])) = 2
    /\ Len(call_args[2]) = 2
    /\ Len(Unwrap(call_result)) = 2
    /\ call_args[2][1].citation_key = extract_citation_keys(call_args[1])[2]
    /\ call_args[2][2].citation_key = extract_citation_keys(call_args[1])[1]
    /\ Unwrap(call_result)[1].ground_id = call_args[2][2].ground_id
    /\ IsNone(call_args[2][2].evidence_content)
    /\ Unwrap(call_result)[1].provenance.evidence_content
           = Some(<<"c", "i", "t", "a", "t", "i", "o", "n", "_", "k", "e", "y", "=">> \o call_args[2][2].citation_key)

(***************************************************************************)
(* Claims about the statement of the final text.                           *)
(***************************************************************************)
\* The final text holds one of the markers strip_greeting looks for.
HasExtractorMarker == contains_any(to_lowercase(em_text), GreetingNormativeMarkers)

\* C15: for every non-empty final text that contains none of the
\* extractor's normative, conditional and personalization markers, the
\* extractor returns no statement and evaluate returns status
\* no_normative_content with licensed = false, can_retry = false,
\* num_statements = 0 and no statement evaluation.
C15_UnmarkedTextHasNoNormativeContent ==
    (Judged /\ em_text # <<>> /\ ~HasExtractorMarker) =>
        /\ extract(em_text) = <<>>
        /\ Judgment.status = "NoNormativeContent"
        /\ Judgment.licensed = FALSE
        /\ Judgment.can_retry = FALSE
        /\ Judgment.num_statements = 0
        /\ Judgment.statement_evaluations = <<>>

\* A greeting with an offer of help, judged while a tool result is at hand.
C15_Witness ==
    /\ Judged
    /\ em_text = TextGreeting
    /\ em_knowledge_nodes # <<>>
    /\ Judgment.status = "NoNormativeContent"
    /\ Judgment.num_statements = 0

(***************************************************************************)
(* Claims about the knowledge state.                                       *)
(***************************************************************************)
\* The tool name of a result ("unknown" when it has none) is non-epistemic.
NonEpistemic(tool_result) ==
    is_non_epistemic_tool(IF tool_result.tool_name = <<>> THEN Unknown
                          ELSE tool_result.tool_name)

\* The nodes one result contributes.
ContributionOf(tool_result) ==
    unwrap_or_default(tool_result_to_knowledge(tool_result))

\* C16: build_with_references produces no knowledge node and no
\* tool_call_refs entry for a tool result exactly when its tool name is
\* non-epistemic; every other tool result, whatever its result text
\* (unparseable, empty, an array with no identifying field), contributes at
\* least one node.
C16_NodesExactlyForEpistemicTools ==
    IsSome(call_result) =>
        LET of(results, nodes, refs) ==
                /\ \A k \in 1..Len(results) :
                      /\ NonEpistemic(results[k])
                            <=> IsNone(tool_result_to_knowledge(results[k]))
                      /\ NonEpistemic(results[k])
                            <=> ContributionOf(results[k]) = <<>>
                /\ nodes = Flatten([k \in 1..Len(results) |->
                                       ContributionOf(results[k])])
                /\ {refs[e][1] : e \in 1..Len(refs)}
                      = {Unwrap(results[k].tool_call_id) :
                            k \in {j \in 1..Len(results) :
                                      /\ ~NonEpistemic(results[j])
                                      /\ IsSome(results[j].tool_call_id)}}
                /\ \A e \in 1..Len(refs) : refs[e][2] # <<>>
        IN  of(call_args[1], Unwrap(call_result)[1], Unwrap(call_result)[2])

\* A non-epistemic result with a call id and an evidentiary result whose
\* text is not JSON: one node, and only the second call id is referenced.
C16_Witness ==
    /\ IsSome(call_result)
    /\ Len(call_args[1]) = 2
    /\ NonEpistemic(call_args[1][1])
    /\ call_args[1][1].tool_call_id = Some(CallId)
    /\ ~NonEpistemic(call_args[1][2])
    /\ call_args[1][2].tool_call_id = Some(OtherCallId)
    /\ IsNone(parse_json(call_args[1][2].result_text))
    /\ Len(Unwrap(call_result)[1]) = 1
    /\ Len(Unwrap(call_result)[2]) = 1
    /\ Unwrap(call_result)[2][1][1] = OtherCallId

\* A ground id is present in the nodes, as a node id or as a semantic id.
PresentIn(nodes, ground_id) ==
    \E k \in 1..Len(nodes) :
        nodes[k].id = ground_id \/ nodes[k].semantic_id = Some(ground_id)

\* The node a ground id is materialized as.
MaterializedNode(ground_id) ==
    [id |-> ground_id, source |-> "Observed", status |-> "Confirmed",
     confidence |-> 1, scope |-> "Factual", strength |-> "strong",
     semantic_id |-> Some(ground_id)]

\* The existing nodes come first, unchanged; what follows is a materialized
\* node of a ground id that was absent, and every absent ground id has one.
ExistingKeptAndAbsentAdded(nodes, grounds, out) ==
    /\ Len(out) >= Len(nodes)
    /\ SubSeq(out, 1, Len(nodes)) = nodes
    /\ \A k \in (Len(nodes) + 1)..Len(out) :
          \E g \in 1..Len(grounds) :
              /\ ~PresentIn(nodes, grounds[g].ground_id)
              /\ out[k] = MaterializedNode(grounds[g].ground_id)
    /\ \A g \in 1..Len(grounds) :
          ~PresentIn(nodes, grounds[g].ground_id) =>
              \E k \in (Len(nodes) + 1)..Len(out) :
                  out[k].id = grounds[g].ground_id

\* No ground id is materialized more than once.
MaterializedOnce(nodes, out) ==
    \A i \in (Len(nodes) + 1)..Len(out) :
        \A j \in (Len(nodes) + 1)..Len(out) : out[i].id = out[j].id => i = j

\* C17: materialize_external_grounds returns the existing nodes unchanged
\* and in order, followed by one new node (Observed, Confirmed, confidence
\* 1.0, Factual, strong) for every ground id that is not already present as
\* a node id or a semantic id; for every list of grounds no ground id is
\* materialized more than once and no existing node is overwritten.
C17_MaterializedWithoutDuplicate ==
    IsSome(call_result) =>
        /\ ExistingKeptAndAbsentAdded(call_args[1], call_args[2],
                                      Unwrap(call_result))
        /\ MaterializedOnce(call_args[1], Unwrap(call_result))

\* What holds of every list of grounds: the existing nodes are kept and
\* every absent ground id is materialized.
C17_ExistingKeptAbsentAdded ==
    IsSome(call_result) =>
        ExistingKeptAndAbsentAdded(call_args[1], call_args[2],
                                   Unwrap(call_result))

\* Two grounds with one ground id, absent from the nodes: two equal nodes.
C17_MaterializedTwice ==
    /\ IsSome(call_result)
    /\ call_args[1] = <<>>
    /\ Len(call_args[2]) = 2
    /\ call_args[2][1].ground_id = call_args[2][2].ground_id
    /\ Len(Unwrap(call_result)) = 2
    /\ Unwrap(call_result)[1] = Unwrap(call_result)[2]

\* 0xcbf29ce484222325, the offset basis of 64-bit FNV-1a, in 16-bit limbs
\* from the least significant.
Fnv1a64Basis == <<8997, 33826, 40164, 52210>>

\* 64-bit FNV-1a: from the basis, for each byte, XOR the byte and then
\* multiply by 0x100000001b3 modulo 2^64.
RECURSIVE Fnv1a64From(_, _)
Fnv1a64From(hash, bytes) ==
    IF Len(hash) = 4 /\ bytes # <<>>
    THEN Fnv1a64From(
             u64_wrapping_mul_prime(u64_xor_byte(hash, ByteOf[Head(bytes)])),
             Tail(bytes))
    ELSE hash

Fnv1a64(bytes) == Fnv1a64From(Fnv1a64Basis, bytes)

\* C18: the node-id suffix is the first 10 of the 16 lowercase hex digits
\* of the 64-bit FNV-1a hash of the id string, the hash starting at
\* 0xcbf29ce484222325; the suffix of the empty string is "cbf29ce484".
C18_SuffixIsFnv1a64 ==
    IsSome(call_result) =>
        /\ Unwrap(call_result) = SubSeq(hex016(Fnv1a64(call_args[1])), 1, 10)
        /\ call_args[1] = <<>> => Unwrap(call_result) = <<"c", "b", "f", "2", "9", "c", "e", "4", "8", "4">>

\* The suffix the code computes for the empty string.
C18_EmptyStringSuffix ==
    /\ IsSome(call_result)
    /\ call_args[1] = <<>>
    /\ Unwrap(call_result) = <<"1", "4", "6", "5", "0", "f", "b", "0", "7", "3">>

\* The core assertion detect classifies.
CoreOf(text) == extract_core_assertion(to_lowercase(text))

\* The modality of the first rule that matches the core assertion, the rules
\* numbered in the stated order.
FirstMatchingRule(core) ==
    LET matches(n) ==
            CASE n = 1 -> is_refusal(core)
              [] n = 2 -> is_goal_conditional(core)
              [] n = 3 -> is_personalization_conditional(core)
              [] n = 4 -> has_recommendation(core)
              [] n = 5 -> is_conditional(core)
              [] n = 6 -> is_descriptive(core) /\ ~is_normative(core)
              [] OTHER -> TRUE
        modality_of(n) ==
            CASE n = 1 -> "Refusal"
              [] n \in {2, 3, 5} -> "Conditional"
              [] n = 6 -> "Descriptive"
              [] OTHER -> "Assertive"
        first(ns) == modality_of(CHOOSE n \in ns : \A m \in ns : n <= m)
    IN  first({n \in 1..7 : matches(n)})

\* C19: detect returns the modality of the first rule, in the order refusal,
\* goal-conditional prefix, personalization, recommendation, generic
\* conditional, descriptive without a normative verb, default Assertive, that
\* matches the core assertion; so without a refusal marker a goal-conditional
\* prefix with a recommendation marker is Conditional, and a recommendation
\* marker with a generic conditional marker and neither a goal-conditional
\* prefix nor a personalization marker is Assertive.
C19_FirstMatchingRuleWins ==
    LET holds(core, modality) ==
            /\ modality = FirstMatchingRule(core)
            /\ (~is_refusal(core) /\ is_goal_conditional(core)
                  /\ has_recommendation(core)) => modality = "Conditional"
            /\ (~is_refusal(core) /\ ~is_goal_conditional(core)
                  /\ ~is_personalization_conditional(core)
                  /\ has_recommendation(core) /\ is_conditional(core))
                 => modality = "Assertive"
    IN  IsSome(call_result) =>
            holds(CoreOf(call_args[1]), Unwrap(call_result))

\* A core assertion with a goal-conditional prefix and a recommendation
\* marker was classified Conditional.
C19_Witness ==
    LET case(core) ==
            /\ ~is_refusal(core)
            /\ is_goal_conditional(core)
            /\ has_recommendation(core)
    IN  /\ IsSome(call_result)
        /\ case(CoreOf(call_args[1]))
        /\ Unwrap(call_result) = "Conditional"

\* A core assertion with a recommendation marker and a generic conditional
\* marker only was classified Assertive.
C19_RecommendationOverConditional ==
    LET case(core) ==
            /\ ~is_refusal(core)
            /\ ~is_goal_conditional(core)
            /\ ~is_personalization_conditional(core)
            /\ has_recommendation(core)
            /\ is_conditional(core)
    IN  /\ IsSome(call_result)
        /\ case(CoreOf(call_args[1]))
        /\ Unwrap(call_result) = "Assertive"

\* The ground ids of the explicit grounds of the input.
ExplicitGroundIds ==
    LET ids(gs) == {gs[k].ground_id : k \in 1..Len(gs)}
    IN  IF IsSome(ev_input.grounds) THEN ids(Unwrap(ev_input.grounds)) ELSE {}

\* The ground ids the tool-call references name.
ReferencedGroundIds ==
    UNION {{em_tool_call_refs[e][2][j] : j \in 1..Len(em_tool_call_refs[e][2])} :
              e \in 1..Len(em_tool_call_refs)}

\* The ground ids of the links built for the final text.
LinkedGroundIds ==
    LET ids(ls) == {ls[k].ground_id : k \in 1..Len(ls)}
    IN  IF IsSome(links) THEN ids(Unwrap(links)) ELSE {}

\* The judgment came from evaluate_message, past the building of the links.
JudgedMessage == Judged /\ IsSome(links)

\* C20: in every judgment grounds_accepted is the number of distinct ground
\* ids among the explicit grounds and the grounds synthesized from the
\* tool-call references, grounds_cited is the number of distinct ground ids
\* of the links built for the final text, and grounds_cited is at most
\* grounds_accepted, whatever the status.
C20_GroundCounts ==
    LET counts(judgment) ==
            /\ judgment.grounds_accepted =
                   Cardinality(ExplicitGroundIds \cup ReferencedGroundIds)
            /\ judgment.grounds_cited = Cardinality(LinkedGroundIds)
            /\ judgment.grounds_cited <= judgment.grounds_accepted
    IN  Judged => counts(Judgment)

\* A ground id accepted twice, explicitly and from a tool-call reference, and
\* cited through both grounds, is counted once.
C20_Witness ==
    /\ JudgedMessage
    /\ ExplicitGroundIds \cap ReferencedGroundIds # {}
    /\ Len(Unwrap(links)) > Judgment.grounds_cited
    /\ Len(em_combined_grounds) > Judgment.grounds_accepted
    /\ Judgment.grounds_cited >= 1

\* A judgment without normative content that reports a cited ground.
C20_CountsWithoutNormativeContent ==
    /\ JudgedMessage
    /\ Judgment.status = "NoNormativeContent"
    /\ Judgment.grounds_accepted >= 1
    /\ Judgment.grounds_cited >= 1

\* An underdetermined judgment of an empty text that reports accepted
\* grounds.
C20_CountsWhenUnderdetermined ==
    /\ JudgedMessage
    /\ Judgment.status = "Underdetermined"
    /\ em_text = <<>>
    /\ Judgment.grounds_accepted >= 1

\* The eleven documented top-level fields of a serialized judgment.
JudgmentFields ==
    {<<"s", "t", "a", "t", "u", "s">>,
     <<"l", "i", "c", "e", "n", "s", "e", "d">>,
     <<"c", "a", "n", "_", "r", "e", "t", "r", "y">>,
     <<"s", "t", "a", "t", "e", "m", "e", "n", "t", "_", "e", "v", "a", "l", "u", "a", "t", "i", "o", "n", "s">>,
     <<"f", "e", "e", "d", "b", "a", "c", "k", "_", "h", "i", "n", "t">>,
     <<"v", "i", "o", "l", "a", "t", "e", "d", "_", "a", "x", "i", "o", "m", "s">>,
     <<"e", "x", "p", "l", "a", "n", "a", "t", "i", "o", "n">>,
     <<"n", "u", "m", "_", "s", "t", "a", "t", "e", "m", "e", "n", "t", "s">>,
     <<"n", "u", "m", "_", "a", "c", "c", "e", "p", "t", "a", "b", "l", "e">>,
     <<"g", "r", "o", "u", "n", "d", "s", "_", "a", "c", "c", "e", "p", "t", "e", "d">>,
     <<"g", "r", "o", "u", "n", "d", "s", "_", "c", "i", "t", "e", "d">>}

\* The keys of a JSON object, and the value under a key the object has.
KeysOf(object) == {object.map[k][1] : k \in 1..Len(object.map)}
ValueAt(object, key) ==
    object.map[CHOOSE k \in 1..Len(object.map) : object.map[k][1] = key][2]

\* The object has the key, with null under it exactly when the option is
\* absent and a string otherwise.
NullWhenAbsent(object, key, option) ==
    /\ key \in KeysOf(object)
    /\ ValueAt(object, key).kind = IF IsSome(option) THEN "String" ELSE "Null"

\* C21: to_json_value yields an object with exactly the eleven documented
\* top-level fields, each once; feedback_hint, and per statement
\* violated_axiom, subject and predicate, and per ground semantic_id, are
\* present, as an explicit null when absent.
C21_EveryFieldPresent ==
    LET ground_ok(object, ground) ==
            NullWhenAbsent(object, <<"s", "e", "m", "a", "n", "t", "i", "c", "_", "i", "d">>, ground.semantic_id)
        grounds_ok(trace, grounds) ==
            /\ trace.kind = "Array"
            /\ Len(trace.items) = Len(grounds)
            /\ \A g \in 1..Len(grounds) :
                  ground_ok(trace.items[g], grounds[g])
        statement_ok(object, evaluation) ==
            /\ object.kind = "Object"
            /\ NullWhenAbsent(object, <<"v", "i", "o", "l", "a", "t", "e", "d", "_", "a", "x", "i", "o", "m">>, evaluation.violated_axiom)
            /\ NullWhenAbsent(object, <<"s", "u", "b", "j", "e", "c", "t">>, evaluation.subject)
            /\ NullWhenAbsent(object, <<"p", "r", "e", "d", "i", "c", "a", "t", "e">>, evaluation.predicate)
            /\ <<"g", "r", "o", "u", "n", "d", "i", "n", "g", "_", "t", "r", "a", "c", "e">> \in KeysOf(object)
            /\ grounds_ok(ValueAt(object, <<"g", "r", "o", "u", "n", "d", "i", "n", "g", "_", "t", "r", "a", "c", "e">>), evaluation.grounding_trace)
        statements_ok(array, evaluations) ==
            /\ array.kind = "Array"
            /\ Len(array.items) = Len(evaluations)
            /\ \A k \in 1..Len(evaluations) :
                  statement_ok(array.items[k], evaluations[k])
        judgment_ok(object, judgment) ==
            /\ object.kind = "Object"
            /\ KeysOf(object) = JudgmentFields
            /\ Len(object.map) = 11
            /\ NullWhenAbsent(object, <<"f", "e", "e", "d", "b", "a", "c", "k", "_", "h", "i", "n", "t">>, judgment.feedback_hint)
            /\ statements_ok(ValueAt(object, <<"s", "t", "a", "t", "e", "m", "e", "n", "t", "_", "e", "v", "a", "l", "u", "a", "t", "i", "o", "n", "s">>),
                             judgment.statement_evaluations)
    IN  IsSome(call_result) => judgment_ok(Unwrap(call_result), call_args[1])

\* A judgment without a hint, with a statement that has no violated axiom, no
\* subject and no predicate and a ground without a semantic id, serialized
\* with a null feedback_hint.
C21_Witness ==
    LET bare(evaluation) ==
            /\ IsNone(evaluation.violated_axiom)
            /\ IsNone(evaluation.subject)
            /\ IsNone(evaluation.predicate)
            /\ Len(evaluation.grounding_trace) >= 1
            /\ IsNone(evaluation.grounding_trace[1].semantic_id)
        case(judgment) ==
            /\ IsNone(judgment.feedback_hint)
            /\ Len(judgment.statement_evaluations) >= 1
            /\ bare(judgment.statement_evaluations[1])
    IN  /\ IsSome(call_result)
        /\ case(call_args[1])
        /\ ValueAt(Unwrap(call_result), <<"f", "e", "e", "d", "b", "a", "c", "k", "_", "h", "i", "n", "t">>) = JsonNull

\* The core assertion by the stated order of the rules: the first sentence
\* ended by a full stop (and the space after it), else the text before the
\* first blank line, else the first line, else the first 500 characters.
SentenceFirstCore(text) ==
    LET pick(stop, para, line) ==
            IF IsSome(stop) THEN trim(Slice(text, 0, Unwrap(stop) + 1))
            ELSE IF IsSome(para) THEN trim(Slice(text, 0, Unwrap(para)))
            ELSE IF IsSome(line) THEN trim(Slice(text, 0, Unwrap(line)))
            ELSE trim(Slice(text, 0, Min({500, Len(text)})))
    IN  pick(find(text, <<".", " ">>), find(text, <<"\n", "\n">>),
             find(text, <<"\n">>))

\* C22: the core assertion is chosen by the first matching rule in the order
\* first sentence, first paragraph, first line, first 500 characters; a text
\* with a first sentence and a later blank line has the first sentence only
\* as its core assertion.
C22_FirstSentenceBeforeParagraph ==
    IsSome(call_result) =>
        Unwrap(call_result) = SentenceFirstCore(call_args[1])

\* A text with a first sentence and a later blank line whose core assertion
\* runs past the first sentence, up to the blank line.
C22_ParagraphTaken ==
    LET case(text, stop, para) ==
            /\ IsSome(stop)
            /\ IsSome(para)
            /\ Unwrap(stop) < Unwrap(para)
            /\ Unwrap(call_result) = trim(Slice(text, 0, Unwrap(para)))
            /\ Len(Unwrap(call_result)) > Unwrap(stop) + 1
    IN  /\ IsSome(call_result)
        /\ case(call_args[1], find(call_args[1], <<".", " ">>),
                find(call_args[1], <<"\n", "\n">>))

\* C23: strip_protocol_suffix ends after at most 5 passes on every input: a
\* pass either finds no marker and stops, or cuts the text at a marker, which
\* strictly shortens it; no pass fails.
C23_EveryPassShortens ==
    [][(IsSome(frame) /\ Unwrap(frame).state = "running")
          => /\ Unwrap(frame').state # "panicked"
             /\ Unwrap(frame').pass <= 5
             /\ Unwrap(frame').pass > Unwrap(frame).pass
                   => Len(Unwrap(frame').out) < Len(Unwrap(frame).out)]_vars

\* Five passes that each found a marker and cut nothing.
C23_FivePassesWithoutCut ==
    /\ IsSome(call_result)
    /\ Unwrap(frame).pass = 5
    /\ Unwrap(call_result) = trim(call_args[1])

\* A pass that stopped at a slice offset past the end of the text or inside
\* a character.
C23_PassPanicked == IsSome(frame) /\ Unwrap(frame).state = "panicked"

\* On texts without the letter U+0130 the passes return what
\* strip_protocol_suffix returns.
C23_PassesAgreeOnAscii ==
    (IsSome(call_result) /\ ~contains(call_args[1], DottedCapitalI))
        => Unwrap(call_result) = strip_protocol_suffix(call_args[1])

\* A sentence that looks purely conversational: it starts with a protocol
\* phrase, or it ends in '?' and has no normative marker.
StartsAsProtocol(lower) ==
    \/ \E p \in 1..Len(ProtocolMarkers) : starts_with(lower, ProtocolMarkers[p])
    \/ /\ ends_with(trim(lower), <<"?">>)
       /\ ~contains_any(lower, AnyNormativeMarkers)

\* The sentences kept from sentence idx on when a sentence is dropped only if
\* it starts as protocol and has no strong normative marker, and the first
\* other sentence with a normative marker is kept with all that follow.
RECURSIVE KeptFrom(_, _, _)
KeptFrom(sentences, idx, kept) ==
    LET of_lower(lower) ==
            IF StartsAsProtocol(lower)
               /\ ~contains_any(lower, StrongNormativeMarkers)
            THEN KeptFrom(sentences, idx + 1, kept)
            ELSE IF contains_any(lower, AnyNormativeMarkers)
            THEN kept \o SubSeq(sentences, idx, Len(sentences))
            ELSE KeptFrom(sentences, idx + 1, Append(kept, sentences[idx]))
    IN  IF idx > Len(sentences) THEN kept
        ELSE of_lower(to_lowercase(sentences[idx]))

\* C24: scanning from the start, a sentence is dropped only if it starts with
\* a protocol phrase, or ends in '?' without a normative marker, and has no
\* strong normative marker; the first sentence with a normative marker is
\* kept with every sentence after it.
C24_DropsOnlyProtocolSentences ==
    LET expected(sentences) ==
            trim(join(KeptFrom(sentences, 1, <<>>), <<" ">>))
    IN  (IsSome(call_result) /\ split_sentences(call_args[1]) # <<>>)
            => Unwrap(call_result) = expected(split_sentences(call_args[1]))

\* A first sentence with a protocol phrase in its middle and no normative
\* marker, before a sentence with a strong marker, was dropped.
C24_MiddlePhraseDropped ==
    /\ IsSome(call_result)
    /\ call_args[1] = <<"W", "e", "l", "l", ",", " ", "I", " ", "c", "a", "n", " ", "t", "r", "y", ".", " ", "Y", "o", "u", " ", "s", "h", "o", "u", "l", "d", " ", "g", "o", ".">>
    /\ Unwrap(call_result) = <<"Y", "o", "u", " ", "s", "h", "o", "u", "l", "d", " ", "g", "o", ".">>

\* C25: in both modes every modality permitted by derive(G, L) is permitted
\* by derive(G with n added, L).
C25_AddingNodeKeepsPermissions ==
    IsSome(call_result) => Unwrap(call_result)[1] \subseteq Unwrap(call_result)[2]

\* In conservative mode adding a node keeps every permission.
C25_ConservativeMonotonic ==
    (IsSome(call_result) /\ IsNone(call_args[3]))
        => Unwrap(call_result)[1] \subseteq Unwrap(call_result)[2]

\* A link that resolved by semantic id to a strong factual node resolves by
\* id to the added contextual node: Assertive and Conditional are lost.
C25_PermissionLost ==
    /\ IsSome(call_result)
    /\ IsSome(call_args[3])
    /\ Len(call_args[1]) = 1
    /\ call_args[1][1].id # call_args[2].id
    /\ call_args[1][1].semantic_id = Some(call_args[2].id)
    /\ call_args[2].scope = "Contextual"
    /\ Unwrap(call_result)[1] = {"Assertive", "Conditional", "Refusal"}
    /\ Unwrap(call_result)[2] = {"Refusal"}

\* The core assertion of the final text has a refusal marker.
FinalTextRefuses == is_refusal(CoreOf(em_text))

\* C26: for every final text whose core assertion has a refusal marker the
\* judgment has one statement, of modality refusal, and status Acceptable,
\* whatever the conversation and the grounds are.
C26_RefusalTextAcceptable ==
    LET refusal(judgment) ==
            /\ judgment.status = "Acceptable"
            /\ Len(judgment.statement_evaluations) = 1
            /\ judgment.statement_evaluations[1].modality = "refusal"
    IN  (JudgedMessage /\ FinalTextRefuses) => refusal(Judgment)

\* A refusal that passes the extractor is judged Acceptable.
C26_KeptRefusalAcceptable ==
    /\ JudgedMessage
    /\ em_text = TextRefusalOfAll
    /\ Judgment.status = "Acceptable"
    /\ Len(Judgment.statement_evaluations) = 1
    /\ Judgment.statement_evaluations[1].modality = "refusal"

\* "I cannot determine that." has the protocol phrase "i can" and no strong
\* normative marker: the extractor drops the sentence, no statement is left.
C26_RefusalDiscarded ==
    /\ JudgedMessage
    /\ em_text = TextRefusal
    /\ FinalTextRefuses
    /\ Judgment.status = "NoNormativeContent"
    /\ Judgment.statement_evaluations = <<>>

\* A refusal with the marker "please clarify", which the extractor's gate
\* does not know, is discarded too.
C26_UnknownMarkerDiscarded ==
    /\ JudgedMessage
    /\ em_text = TextClarify
    /\ FinalTextRefuses
    /\ Judgment.status = "NoNormativeContent"
    /\ Judgment.statement_evaluations = <<>>

\* The statement results of the evaluation of the final text.
StatementResults ==
    IF IsSome(validation_result) THEN Unwrap(validation_result).statement_results
    ELSE <<>>

\* C27: through evaluate_core a statement detected as Conditional has a
\* non-empty condition list and is judged ConditionallyAcceptable whatever
\* the grounding and the citations are; Unsupported with axiom A7 is never
\* reported; a statement with a non-empty condition list is Conditional.
C27_ConditionalAlwaysConditionallyAcceptable ==
    LET judged(r) ==
            /\ r.statement.modality = Some("Conditional")
                  => /\ r.statement.conditions # <<>>
                     /\ r.status = "ConditionallyAcceptable"
            /\ r.violated_axiom # Some("A7")
            /\ r.statement.conditions # <<>>
                  => r.statement.modality = Some("Conditional")
    IN  pc = "done" =>
            \A k \in 1..Len(StatementResults) : judged(StatementResults[k])

\* A Conditional statement with no condition to extract, whose license does
\* not permit Assertive, judged ConditionallyAcceptable on the condition
\* "unspecified".
C27_Witness ==
    LET case(r) ==
            /\ r.statement.modality = Some("Conditional")
            /\ r.statement.conditions = <<<<"u", "n", "s", "p", "e", "c", "i", "f", "i", "e", "d">>>>
            /\ "Assertive" \notin r.license
            /\ r.status = "ConditionallyAcceptable"
    IN  /\ pc = "done"
        /\ em_text = TextDependsOn
        /\ Len(StatementResults) = 1
        /\ case(StatementResults[1])

\* C28: evaluate_core returns Underdetermined, unlicensed, without retry and
\* without statements, exactly for the empty text; for a non-empty text no
\* statement is Underdetermined or IllFormed, the overall status is
\* Acceptable, ConditionallyAcceptable, ViolatesNorm, Unsupported or
\* NoNormativeContent, and only Descriptive statements are Unsupported.
C28_UnderdeterminedOnlyForEmptyText ==
    LET statement_ok(r) ==
            /\ r.status \notin {"Underdetermined", "IllFormed"}
            /\ r.status = "Unsupported"
                  => r.statement.modality = Some("Descriptive")
        empty_ok(v) ==
            /\ v.status = "Underdetermined"
            /\ ~v.licensed
            /\ ~v.can_retry
            /\ v.statement_results = <<>>
            /\ v.num_statements = 0
        non_empty_ok(v) ==
            /\ v.status \in {"Acceptable", "ConditionallyAcceptable",
                             "ViolatesNorm", "Unsupported",
                             "NoNormativeContent"}
            /\ \A k \in 1..Len(v.statement_results) :
                  statement_ok(v.statement_results[k])
        holds(text, v) == IF text = <<>> THEN empty_ok(v) ELSE non_empty_ok(v)
    IN  IsSome(call_result) => holds(call_args[1], Unwrap(call_result))

\* A blank text, which is not the empty string, has no normative content.
C28_Witness ==
    /\ IsSome(call_result)
    /\ call_args[1] = TextBlank
    /\ Unwrap(call_result).status = "NoNormativeContent"

\* The empty text is Underdetermined.
C28_EmptyTextUnderdetermined ==
    /\ IsSome(call_result)
    /\ call_args[1] = <<>>
    /\ Unwrap(call_result).status = "Underdetermined"

\* A Descriptive statement without a factual node is Unsupported.
C28_DescriptiveUnsupported ==
    /\ IsSome(call_result)
    /\ Unwrap(call_result).status = "Unsupported"
    /\ Unwrap(call_result).statement_results[1].statement.modality
           = Some("Descriptive")

\* An Assertive statement whose license permits it is Acceptable, in
\* conservative mode.
C28_AssertiveAcceptable ==
    /\ IsSome(call_result)
    /\ IsNone(call_args[3])
    /\ Unwrap(call_result).status = "Acceptable"
    /\ Unwrap(call_result).statement_results[1].statement.modality
           = Some("Assertive")

\* C29: in every judgment returned by evaluate, violated_axioms is non-empty
\* exactly when the status is violates_norm or unsupported, it lists the
\* violated_axiom of the statement evaluations in statement order, and
\* feedback_hint is present exactly when can_retry is true.
C29_ViolatedAxiomsAndHint ==
    LET per_statement(evals) ==
            Flatten([k \in 1..Len(evals) |-> evals[k].violated_axiom])
        holds(j) ==
            /\ (j.violated_axioms # <<>>)
                  <=> (j.status \in {"ViolatesNorm", "Unsupported"})
            /\ j.violated_axioms = per_statement(j.statement_evaluations)
            /\ IsSome(j.feedback_hint) <=> j.can_retry
    IN  Judged => holds(Judgment)

\* An unsupported judgment names A4 and carries a hint for the retry.
C29_Witness ==
    /\ Judged
    /\ Judgment.status = "Unsupported"
    /\ Judgment.violated_axioms = <<"A4">>
    /\ Judgment.can_retry
    /\ IsSome(Judgment.feedback_hint)

\* A judgment that violates a norm names A5 and carries a hint.
C29_NormViolationNamed ==
    /\ Judged
    /\ Judgment.status = "ViolatesNorm"
    /\ Judgment.statement_evaluations[1].violated_axiom = Some("A5")
    /\ IsSome(Judgment.feedback_hint)

\* An acceptable judgment names no axiom and carries no hint.
C29_AcceptableNamesNone ==
    /\ Judged
    /\ Judgment.status = "Acceptable"
    /\ Judgment.num_statements = 1
    /\ Judgment.violated_axioms = <<>>
    /\ IsNone(Judgment.feedback_hint)

\* C30: for every ground set and every link set, the license derived from the
\* links permits nothing that the license derived conservatively from the
\* same ground set does not permit, and every derived license permits
\* Refusal.
C30_LinkAwareWithinConservative ==
    IsSome(derived) =>
        /\ "Refusal" \in Unwrap(derived)
        /\ "Refusal" \in derive_conservative(ground_set)
        /\ IsSome(links) => Unwrap(derived) \subseteq derive_conservative(ground_set)

\* A strong factual ground that no Supports link cites: the links permit
\* Refusal only, the ground set alone would permit an assertion.
C30_Witness ==
    /\ IsSome(derived)
    /\ IsSome(links)
    /\ Unwrap(derived) = {"Refusal"}
    /\ "Assertive" \in derive_conservative(ground_set)

\* A cited strong factual ground: both modes permit an assertion.
C30_BothPermitAssertive ==
    /\ IsSome(derived)
    /\ IsSome(links)
    /\ "Assertive" \in Unwrap(derived)
    /\ Unwrap(derived) = derive_conservative(ground_set)

\* A cited weak factual ground beside an uncited strong one: the links permit
\* a conditional, the ground set alone an assertion.
C30_ConditionalWithinAssertive ==
    /\ IsSome(derived)
    /\ IsSome(links)
    /\ Unwrap(derived) = {"Conditional", "Refusal"}
    /\ "Assertive" \in derive_conservative(ground_set)

====
